---------------------------- MODULE Spec2Model ----------------------------
(***************************************************************************)
(* A model of the Ella Rises server (src/index.js): the global             *)
(* authentication middleware and the router, the event-registration        *)
(* handlers (register, cancel), the survey submission, the admin list      *)
(* pages and the dashboard, over the tables of the migration               *)
(* (src/unnamed/part_000).                                                 *)
(*                                                                         *)
(* A request path is the sequence of the segments that follow its slashes:  *)
(* "/manage-events/1/new" is <<"manage-events", "1", "new">>, "/" is       *)
(* <<"">> and "/lang/" is <<"lang", "">>.  A text value that the code      *)
(* inspects character by character (the session's level) is the sequence   *)
(* of its characters.                                                      *)
(***************************************************************************)
EXTENDS Integers, Sequences, FiniteSets, TLC

VARIABLES
    \* ---- one request passing the global middleware and the router
    method,          \* req.method
    path,            \* req.path
    session,         \* req.session
    res,             \* what the middleware did: nothing yet, next() or a render
    handler,         \* the route the request was passed to by next()
    \* ---- the store
    now,             \* the clock read by new Date()
    event_occurrences,   \* table event_occurrences, by event_occurrence_id
    registration,    \* table registration, row i has registration_id i
    surveys,         \* table surveys, row i has survey_id i
    users,           \* table users, row i has user_id i
    donations,       \* table donations
    event_templates, \* table event_templates
    milestones,      \* table milestones
    user_milestones, \* table user_milestones
    \* ---- the page a read-only handler rendered
    rendered,        \* res.render(name, locals) of a list page or the dashboard
    \* ---- the requests in flight against the store
    reqs             \* each request slot's position and locals

vars == <<method, path, session, res, handler, now, event_occurrences,
          registration, surveys, users, donations, event_templates,
          milestones, user_milestones, rendered, reqs>>

accVars == <<method, path, session, res, handler>>
adminVars == <<users, donations, event_templates, milestones,
               user_milestones, rendered>>
dbVars == <<now, event_occurrences, registration, surveys, adminVars, reqs>>

(***************************************************************************)
(* Values                                                                  *)
(***************************************************************************)
\* an integer column or local that is null
NULL == -1
\* req.session.user_id of a session that never logged in (undefined)
NoUser == 0
\* req.session.level of a session that never logged in, or a null user_role
Undefined == <<"undefined">>
\* registration_status: null
NullStatus == "null"

adminLower == <<"a", "d", "m", "i", "n">>
AdminCap == <<"A", "d", "m", "i", "n">>
AdminUpper == <<"A", "D", "M", "I", "N">>
participantLevel == <<"p", "a", "r", "t", "i", "c", "i", "p", "a", "n", "t">>

\* the user_role values a users row can hold (free text in the admin forms)
Levels == {Undefined, << >>, adminLower, AdminCap, AdminUpper, participantLevel}

\* the sessions a request can carry: never logged in, or logged in by
\* POST /login or POST /register, which copy user_role into level
Unauthenticated == [isLoggedIn |-> FALSE, level |-> Undefined, user_id |-> NoUser]
LoggedIn(u, level) == [isLoggedIn |-> TRUE, level |-> level, user_id |-> u]

(***************************************************************************)
(* String.prototype.toLowerCase, on the characters roles are written with  *)
(***************************************************************************)
LowerChar(c) ==
    CASE c = "A" -> "a"
      [] c = "D" -> "d"
      [] c = "M" -> "m"
      [] c = "I" -> "i"
      [] c = "N" -> "n"
      [] c = "P" -> "p"
      [] OTHER -> c

toLowerCase(s) == [i \in 1..Len(s) |-> LowerChar(s[i])]

\* a JavaScript text value used as a condition
Truthy(level) == level # Undefined /\ level # << >>

(***************************************************************************)
(* The global authentication middleware                                    *)
(***************************************************************************)
public_routes ==
    { <<"">>, <<"login">>, <<"register">>, <<"about">>, <<"events">>,
      <<"donate">>, <<"analytics">>, <<"teapot">> }

admin_routes ==
    { <<"manage-events">>, <<"manage-events", "new">>,
      <<"manage-milestones">>, <<"manage-milestones", "new">>,
      <<"manage-surveys">>,
      <<"manage-donations">>, <<"manage-donations", "new">>,
      <<"manage-donations", "export">>,
      <<"manage-participants">>, <<"manage-participants", "new">> }

\* p.startsWith("/" + first + "/")
startsWith(p, first) == Len(p) >= 2 /\ p[1] = first

\* p.endsWith("/" + last) and p.endsWith("/" + a + "/" + b)
endsWith(p, last) == p[Len(p)] = last
endsWith2(p, a, b) == Len(p) >= 2 /\ p[Len(p) - 1] = a /\ p[Len(p)] = b

\* the condition of the dynamic admin routes
AdminPattern(p) ==
    \/ startsWith(p, "manage-events")
         /\ (endsWith(p, "delete") \/ endsWith(p, "new"))
    \/ startsWith(p, "manage-milestones")
         /\ (endsWith(p, "delete") \/ endsWith(p, "update"))
    \/ startsWith(p, "manage-donations")
         /\ (endsWith(p, "delete") \/ endsWith(p, "update"))
    \/ startsWith(p, "manage-participants")
         /\ (\/ endsWith(p, "delete")
             \/ endsWith(p, "update")
             \/ endsWith(p, "milestones")
             \/ endsWith2(p, "milestones", "add")
             \/ endsWith2(p, "milestones", "remove"))

NoResponse == [action |-> "none", view |-> "", error_message |-> ""]
CallNext == [action |-> "next", view |-> "", error_message |-> ""]
Render(view, msg) == [action |-> "render", view |-> view, error_message |-> msg]

\* IsAdmin with the role compared as written, without toLowerCase
IsAdminExactCase(s) ==
    s.isLoggedIn /\ Truthy(s.level) /\ s.level = adminLower

\* the negation of
\* !req.session.isLoggedIn || !req.session.level || level.toLowerCase() !== 'admin'
IsAdmin(s) ==
    s.isLoggedIn /\ Truthy(s.level) /\ toLowerCase(s.level) = adminLower

\* AdminRule with the test inverted
AdminRuleInverted(s) ==
    IF IsAdmin(s) THEN Render("login", "Authentication error") ELSE CallNext

\* the body of both admin branches: "Must be logged in AND be an admin"
AdminRule(s) ==
    IF ~IsAdmin(s) THEN Render("login", "Authentication error") ELSE CallNext

\* DefaultRule answering as the admin branches do
DefaultRuleAsAdmin(s) ==
    IF s.isLoggedIn THEN CallNext ELSE Render("login", "Authentication error")

\* "For all other routes, just check if user is logged in"
DefaultRule(s) ==
    IF s.isLoggedIn THEN CallNext ELSE Render("login", "")

\* the public test of the earlier version of the route file, which has
\* neither the language prefix nor /analytics and /teapot
IsPublicEarlier(p) ==
    p \in { <<"">>, <<"login">>, <<"register">>, <<"about">>, <<"events">>,
            <<"donate">> }

\* public_routes.includes(req.path) || req.path.startsWith('/lang/')
IsPublic(p) == p \in public_routes \/ startsWith(p, "lang")

\* the middleware's answer for a path and a session
Authenticate(p, s) ==
    IF IsPublic(p) THEN CallNext
    ELSE IF AdminPattern(p) THEN AdminRule(s)
    ELSE IF p \in admin_routes THEN AdminRule(s)
    ELSE DefaultRule(s)

\* the three decisions of the access policy
Decision(r) ==
    CASE r.action = "next" -> "ALLOW"
      [] r.action = "render" /\ r.error_message = "" -> "CHALLENGE"
      [] r.action = "render" /\ r.error_message # "" -> "FORBIDDEN"
      [] OTHER -> "NONE"

(***************************************************************************)
(* The router: the routes in the order they are registered; a segment      *)
(* written :name in the source matches any segment.                        *)
(***************************************************************************)
ANY == ":"

Routes ==
    <<
       <<"GET", <<"lang", ANY>>>>,                                     \* line 213
       <<"GET", <<"">>>>,                                              \* line 237
       <<"GET", <<"login">>>>,                                         \* line 242
       <<"GET", <<"register">>>>,                                      \* line 247
       <<"GET", <<"about">>>>,                                         \* line 252
       <<"GET", <<"analytics">>>>,                                     \* line 259
       <<"GET", <<"teapot">>>>,                                        \* line 264
       <<"GET", <<"events">>>>,                                        \* line 278
       <<"POST", <<"events", ANY, "register">>>>,                      \* line 405
       <<"GET", <<"manage-event-occurrences">>>>,                      \* line 485
       <<"GET", <<"manage-event-occurrences", "new">>>>,               \* line 569
       <<"POST", <<"manage-event-occurrences", "new">>>>,              \* line 591
       <<"POST", <<"manage-event-occurrences", ANY, "update">>>>,      \* line 641
       <<"POST", <<"manage-event-occurrences", ANY, "delete">>>>,      \* line 683
       <<"GET", <<"manage-events">>>>,                                 \* line 699
       <<"GET", <<"manage-events", "new">>>>,                          \* line 767
       <<"POST", <<"manage-events", "new-template">>>>,                \* line 774
       <<"POST", <<"manage-events", ANY, "new">>>>,                    \* line 803
       <<"POST", <<"manage-events", ANY, "update">>>>,                 \* line 888
       <<"POST", <<"manage-events", ANY, "delete">>>>,                 \* line 918
       <<"GET", <<"milestone-progress">>>>,                            \* line 946
       <<"GET", <<"manage-milestones">>>>,                             \* line 971
       <<"GET", <<"manage-milestones", "new">>>>,                      \* line 1026
       <<"POST", <<"manage-milestones", "new">>>>,                     \* line 1032
       <<"POST", <<"manage-milestones", ANY, "delete">>>>,             \* line 1048
       <<"POST", <<"manage-milestones", ANY, "update">>>>,             \* line 1072
       <<"GET", <<"donate">>>>,                                        \* line 1107
       <<"POST", <<"donate">>>>,                                       \* line 1113
       <<"GET", <<"my-donations">>>>,                                  \* line 1157
       <<"GET", <<"manage-donations">>>>,                              \* line 1180
       <<"GET", <<"manage-donations", "new">>>>,                       \* line 1291
       <<"POST", <<"manage-donations", "new">>>>,                      \* line 1297
       <<"POST", <<"manage-donations", ANY, "delete">>>>,              \* line 1317
       <<"POST", <<"manage-donations", ANY, "update">>>>,              \* line 1341
       <<"GET", <<"manage-donations", "export">>>>,                    \* line 1370
       <<"GET", <<"surveys">>>>,                                       \* line 1431
       <<"GET", <<"add-survey", ANY, ANY>>>>,                          \* line 1483
       <<"POST", <<"add-survey", ANY>>>>,                              \* line 1526
       <<"POST", <<"surveys", ANY, "delete">>>>,                       \* line 1552
       <<"GET", <<"registrations", ANY>>>>,                            \* line 1582
       <<"POST", <<"registrations", ANY, "cancel">>>>,                 \* line 1626
       <<"POST", <<"registration", ANY, "register", ANY>>>>,           \* line 1652
       <<"GET", <<"manage-surveys">>>>,                                \* line 1689
       <<"POST", <<"manage-surveys", ANY, "update">>>>,                \* line 1773
       <<"POST", <<"manage-surveys", ANY, "delete">>>>,                \* line 1794
       <<"GET", <<"manage-participants">>>>,                           \* line 1822
       <<"GET", <<"manage-participants", "new">>>>,                    \* line 1906
       <<"GET", <<"dashboard">>>>,                                     \* line 1919
       <<"POST", <<"manage-participants", "new">>>>,                   \* line 2053
       <<"POST", <<"manage-participants", ANY, "delete">>>>,           \* line 2075
       <<"POST", <<"manage-participants", ANY, "update">>>>,           \* line 2099
       <<"GET", <<"manage-participants", ANY, "milestones">>>>,        \* line 2153
       <<"POST", <<"manage-participants", ANY, "milestones", "add">>>>, \* line 2186
       <<"POST", <<"manage-participants", ANY, "milestones", "remove">>>>, \* line 2227
       <<"GET", <<"account-info">>>>,                                  \* line 2254
       <<"POST", <<"login">>>>,                                        \* line 2344
       <<"POST", <<"logout">>>>,                                       \* line 2406
       <<"POST", <<"register">>>>,                                     \* line 2420
       <<"POST", <<"account-info">>>>                                  \* line 2501
    >>

\* the router is not strict: one trailing slash is ignored
WithoutTrailingSlash(p) ==
    IF Len(p) >= 2 /\ p[Len(p)] = "" THEN SubSeq(p, 1, Len(p) - 1) ELSE p

\* a parameter matches one segment that is not empty
Matches(pattern, p) ==
    LET q == WithoutTrailingSlash(p)
    IN  /\ Len(pattern) = Len(q)
        /\ \A i \in 1..Len(q) :
              pattern[i] = q[i] \/ (pattern[i] = ANY /\ q[i] # "")

NoHandler == <<"", << >>>>

\* the first registered route of the method that matches the path
Route(m, p) ==
    LET hits == {i \in 1..Len(Routes) : Routes[i][1] = m /\ Matches(Routes[i][2], p)}
    IN  IF hits = {} THEN NoHandler
        ELSE Routes[CHOOSE i \in hits : \A j \in hits : i <= j]

(***************************************************************************)
(* One request through the middleware and the router.  The request is      *)
(* drawn by AccInit; Middleware answers it and, after next(), Dispatch     *)
(* passes it to the first matching route.                                  *)
(***************************************************************************)
Segments ==
    { "", "1", "2", "en", "es", "lang", "login", "logout", "register", "about",
      "events", "donate", "analytics", "teapot", "dashboard", "surveys",
      "my-donations", "account-info", "milestone-progress",
      "registrations", "registration", "add-survey",
      "manage-events", "manage-milestones", "manage-donations",
      "manage-participants", "manage-surveys", "manage-event-occurrences",
      "delete", "new", "update", "export", "new-template", "cancel",
      "milestones", "add", "remove" }

Tails == { "1", "register", "delete", "update", "milestones", "add", "remove" }

Paths ==
    {<<a>> : a \in Segments}
      \cup {<<a, b>> : a \in Segments, b \in Segments}
      \cup {<<a, "1", b>> : a \in Segments, b \in Segments}
      \cup {<<a, "1", b, c>> : a \in Segments, b \in Tails, c \in Tails}

Sessions == {Unauthenticated} \cup {LoggedIn(1, l) : l \in Levels}

NotFound404 == <<"404", << >>>>

Middleware ==
    /\ res = NoResponse
    /\ res' = Authenticate(path, session)
    /\ UNCHANGED <<method, path, session, handler>>
    /\ UNCHANGED dbVars

Dispatch ==
    /\ res.action = "next"
    /\ handler = NoHandler
    /\ handler' = (IF Route(method, path) = NoHandler THEN NotFound404
                   ELSE Route(method, path))
    /\ UNCHANGED <<method, path, session, res>>
    /\ UNCHANGED dbVars

AccNext == Middleware \/ Dispatch

(***************************************************************************)
(* The store and the requests against it                                   *)
(***************************************************************************)
NumReq == 2          \* requests in flight at once
NumUsers == 2        \* rows of table users
MaxTime == 2         \* the clock runs from 0 to MaxTime
MaxRows == 3         \* rows of table registration
MaxSurveys == 2      \* rows of table surveys

Procs == 1..NumReq
Users == 1..NumUsers
OccIds == {1}
\* the ids a request can name: those of the rows and one past them
ReqOccIds == OccIds \cup {2}
ReqRegIds == 1..(Len(registration) + 1)

\* users.user_role of every user of the model
user_role(u) == participantLevel

\* event_capacity, event_date_time_start and event_registration_deadline
\* of an occurrence; capacity and deadline are nullable
Capacities == {NULL, 0, 1, 2}
Starts == {1}
Deadlines == {NULL, 0}

NoEvent ==
    [event_occurrence_id |-> NULL, event_capacity |-> NULL,
     event_date_time_start |-> NULL, event_registration_deadline |-> NULL]

\* a JavaScript number (or null) used as a condition
TruthyNum(n) == n # NULL /\ n # 0

Idle ==
    [pc |-> "idle", route |-> "", session |-> Unauthenticated,
     event_occurrence_id |-> NULL, registration_id |-> NULL,
     user_id |-> NULL, nextId |-> NULL,
     event |-> NoEvent, currentDate |-> NULL, body |-> << >>,
     result |-> ""]

\* the number of elements of a sequence that satisfy Test
CountWhere(seq, Test(_)) == Cardinality({i \in 1..Len(seq) : Test(seq[i])})

\* knex(...).where(...).first(): the first row that satisfies Test
HasRow(seq, Test(_)) == \E i \in 1..Len(seq) : Test(seq[i])

\* the text columns the list pages search: two names, as the sequences of
\* their characters
TextA == [first |-> <<"A", "n">>, last |-> <<"D", "i">>]
TextB == [first |-> <<"M", "a">>, last |-> <<"P", "i">>]

UserRow(i, text) ==
    [user_id |-> i, user_first_name |-> text.first, user_last_name |-> text.last]

\* res.render not called
NoView == [name |-> ""]

\* the tables the register, cancel and survey handlers do not read, and no
\* page rendered
AdminIdle ==
    /\ users = [i \in 1..NumUsers |-> UserRow(i, TextA)]
    /\ donations = << >>
    /\ event_templates = << >>
    /\ milestones = << >>
    /\ user_milestones = << >>
    /\ rendered = NoView

DbInit ==
    /\ method = "GET"
    /\ path = <<"">>
    /\ session = Unauthenticated
    /\ res = NoResponse
    /\ handler = NoHandler
    /\ now = 0
    /\ event_occurrences \in
         [OccIds -> [event_capacity : Capacities,
                     event_date_time_start : Starts,
                     event_registration_deadline : Deadlines]]
    /\ registration = << >>
    /\ surveys = << >>
    /\ AdminIdle
    /\ reqs = [p \in Procs |-> Idle]

AccInit ==
    /\ method \in {"GET", "POST"}
    /\ path \in Paths
    /\ session \in Sessions
    /\ res = NoResponse
    /\ handler = NoHandler
    /\ now = 0
    /\ event_occurrences =
         [e \in OccIds |-> [event_capacity |-> NULL,
                            event_date_time_start |-> 1,
                            event_registration_deadline |-> NULL]]
    /\ registration = << >>
    /\ surveys = << >>
    /\ AdminIdle
    /\ reqs = [p \in Procs |-> Idle]

AccSpec == AccInit /\ [][AccNext]_vars

\* the segment an id is written as in a path
IdSegment(n) == ToString(n)

Done(r, result) == [r EXCEPT !.pc = "done", !.result = result]

(***************************************************************************)
(* POST /events/:event_occurrence_id/register                              *)
(***************************************************************************)
RegisterPath(e) == <<"events", IdSegment(e), "register">>

\* ExistingRegistration looking only at the rows that are not cancelled
ExistingActiveRegistration(u, e) ==
    HasRow(registration, LAMBDA r : /\ r.user_id = u
                                    /\ r.event_occurrence_id = e
                                    /\ r.registration_status # "Cancelled")

\* the registration rows of a user for an occurrence, whatever their status
ExistingRegistration(u, e) ==
    HasRow(registration, LAMBDA r : r.user_id = u /\ r.event_occurrence_id = e)

\* the count of the rows of an occurrence that are not cancelled
RegistrationCountActive(e) ==
    CountWhere(registration, LAMBDA r : /\ r.event_occurrence_id = e
                                        /\ r.registration_status # "Cancelled")

\* knex('registration').where('event_occurrence_id', e).count('* as count')
RegistrationCount(e) ==
    CountWhere(registration, LAMBDA r : r.event_occurrence_id = e)

\* the requests that may still insert a registration row
Inserting == {p \in Procs : reqs[p].route = "register" /\ reqs[p].pc # "done"}

\* the request arrives: the middleware, then the handler up to its first query
StartRegister(p, s, e) ==
    /\ reqs[p].pc = "idle"
    /\ Len(registration) + Cardinality(Inserting) < MaxRows
    /\ LET r == [Idle EXCEPT !.route = "register", !.session = s,
                             !.event_occurrence_id = e]
           answer == Authenticate(RegisterPath(e), s)
       IN  reqs' = [reqs EXCEPT ![p] =
                IF answer.action # "next" THEN Done(r, Decision(answer))
                ELSE IF s.user_id = NoUser THEN Done(r, "RedirectToLogin")
                ELSE [r EXCEPT !.pc = "load"]]
    /\ UNCHANGED <<now, event_occurrences, registration, surveys>>
    /\ UNCHANGED <<accVars, adminVars>>

\* LoadEvent with Validation 2 (deadline) left out
LoadEventNoDeadline(p) ==
    /\ reqs[p].pc = "load"
    /\ LET e == reqs[p].event_occurrence_id
           event == IF e \in DOMAIN event_occurrences
                    THEN [event_occurrence_id |-> e,
                          event_capacity |-> event_occurrences[e].event_capacity,
                          event_date_time_start |->
                              event_occurrences[e].event_date_time_start,
                          event_registration_deadline |->
                              event_occurrences[e].event_registration_deadline]
                    ELSE NoEvent
           currentDate == now
           eventStart == event.event_date_time_start
           r == [reqs[p] EXCEPT !.event = event, !.currentDate = currentDate]
       IN  reqs' = [reqs EXCEPT ![p] =
                IF event = NoEvent THEN Done(reqs[p], "NotFound")
                ELSE IF eventStart < currentDate THEN Done(r, "AlreadyStarted")
                ELSE [r EXCEPT !.pc = "dup"]]
    /\ UNCHANGED <<now, event_occurrences, registration, surveys>>
    /\ UNCHANGED <<accVars, adminVars>>

\* the occurrence is read; "Make sure the event actually exists",
\* Validation 1 (start) and Validation 2 (deadline)
LoadEvent(p) ==
    /\ reqs[p].pc = "load"
    /\ LET e == reqs[p].event_occurrence_id
           event == IF e \in DOMAIN event_occurrences
                    THEN [event_occurrence_id |-> e,
                          event_capacity |-> event_occurrences[e].event_capacity,
                          event_date_time_start |->
                              event_occurrences[e].event_date_time_start,
                          event_registration_deadline |->
                              event_occurrences[e].event_registration_deadline]
                    ELSE NoEvent
           currentDate == now
           eventStart == event.event_date_time_start
           deadline == event.event_registration_deadline
           r == [reqs[p] EXCEPT !.event = event, !.currentDate = currentDate]
       IN  reqs' = [reqs EXCEPT ![p] =
                IF event = NoEvent THEN Done(reqs[p], "NotFound")
                ELSE IF eventStart < currentDate THEN Done(r, "AlreadyStarted")
                ELSE IF deadline # NULL /\ deadline < currentDate
                THEN Done(r, "DeadlinePassed")
                ELSE [r EXCEPT !.pc = "dup"]]
    /\ UNCHANGED <<now, event_occurrences, registration, surveys>>
    /\ UNCHANGED <<accVars, adminVars>>

\* Validation 3 with the query left out
DupCheckSkipped(p) ==
    /\ reqs[p].pc = "dup"
    /\ reqs' = [reqs EXCEPT ![p].pc = "count"]
    /\ UNCHANGED <<now, event_occurrences, registration, surveys>>
    /\ UNCHANGED <<accVars, adminVars>>

\* Validation 3: "Check if user is already registered"
DupCheck(p) ==
    /\ reqs[p].pc = "dup"
    /\ reqs' = [reqs EXCEPT ![p] =
          IF ExistingRegistration(reqs[p].session.user_id,
                                  reqs[p].event_occurrence_id)
          THEN Done(reqs[p], "AlreadyRegistered")
          ELSE [reqs[p] EXCEPT !.pc = "count"]]
    /\ UNCHANGED <<now, event_occurrences, registration, surveys>>
    /\ UNCHANGED <<accVars, adminVars>>

\* Validation 4 with a null capacity read as 0
CountCheckNullAsZero(p) ==
    /\ reqs[p].pc = "count"
    /\ LET currentCount == RegistrationCount(reqs[p].event_occurrence_id)
           event_capacity == IF reqs[p].event.event_capacity = NULL THEN 0
                             ELSE reqs[p].event.event_capacity
       IN  reqs' = [reqs EXCEPT ![p] =
                IF currentCount >= event_capacity
                THEN Done(reqs[p], "CapacityReached")
                ELSE [reqs[p] EXCEPT !.pc = "insert"]]
    /\ UNCHANGED <<now, event_occurrences, registration, surveys>>
    /\ UNCHANGED <<accVars, adminVars>>

\* Validation 4: "Check if event is at capacity"
CountCheck(p) ==
    /\ reqs[p].pc = "count"
    /\ LET currentCount == RegistrationCount(reqs[p].event_occurrence_id)
           event_capacity == reqs[p].event.event_capacity
       IN  reqs' = [reqs EXCEPT ![p] =
                IF TruthyNum(event_capacity) /\ currentCount >= event_capacity
                THEN Done(reqs[p], "CapacityReached")
                ELSE [reqs[p] EXCEPT !.pc = "insert"]]
    /\ UNCHANGED <<now, event_occurrences, registration, surveys>>
    /\ UNCHANGED <<accVars, adminVars>>

\* "All validations passed! Create the registration"
InsertRegistration(p) ==
    /\ reqs[p].pc = "insert"
    /\ registration' = Append(registration,
          [registration_id |-> Len(registration) + 1,
           user_id |-> reqs[p].session.user_id,
           event_occurrence_id |-> reqs[p].event_occurrence_id,
           registration_status |-> NullStatus])
    /\ reqs' = [reqs EXCEPT ![p] = Done(reqs[p], "Ok")]
    /\ UNCHANGED <<now, event_occurrences, surveys>>
    /\ UNCHANGED <<accVars, adminVars>>

(***************************************************************************)
(* POST /registrations/:registration_id/cancel                             *)
(***************************************************************************)
CancelPath(id) == <<"registrations", IdSegment(id), "cancel">>

StartCancel(p, s, id) ==
    /\ reqs[p].pc = "idle"
    /\ LET r == [Idle EXCEPT !.route = "cancel", !.session = s,
                             !.registration_id = id]
           answer == Authenticate(CancelPath(id), s)
       IN  reqs' = [reqs EXCEPT ![p] =
                IF answer.action # "next" THEN Done(r, Decision(answer))
                ELSE [r EXCEPT !.pc = "cancel_load"]]
    /\ UNCHANGED <<now, event_occurrences, registration, surveys>>
    /\ UNCHANGED <<accVars, adminVars>>

\* the registration is read
CancelLoad(p) ==
    /\ reqs[p].pc = "cancel_load"
    /\ reqs' = [reqs EXCEPT ![p] =
          IF ~HasRow(registration,
                     LAMBDA r : r.registration_id = reqs[p].registration_id)
          THEN Done(reqs[p], "NotFound")
          ELSE [reqs[p] EXCEPT !.pc = "cancel_update"]]
    /\ UNCHANGED <<now, event_occurrences, registration, surveys>>
    /\ UNCHANGED <<accVars, adminVars>>

\* the cancellation as a hard delete of the row
CancelUpdateDelete(p) ==
    /\ reqs[p].pc = "cancel_update"
    /\ registration' =
          SelectSeq(registration,
                    LAMBDA r : r.registration_id # reqs[p].registration_id)
    /\ reqs' = [reqs EXCEPT ![p] = Done(reqs[p], "Ok")]
    /\ UNCHANGED <<now, event_occurrences, surveys>>
    /\ UNCHANGED <<accVars, adminVars>>

\* "Cancel the registration"
CancelUpdate(p) ==
    /\ reqs[p].pc = "cancel_update"
    /\ registration' =
          [i \in 1..Len(registration) |->
              IF registration[i].registration_id = reqs[p].registration_id
              THEN [registration[i] EXCEPT !.registration_status = "Cancelled"]
              ELSE registration[i]]
    /\ reqs' = [reqs EXCEPT ![p] = Done(reqs[p], "Ok")]
    /\ UNCHANGED <<now, event_occurrences, surveys>>
    /\ UNCHANGED <<accVars, adminVars>>

(***************************************************************************)
(* The clock, and a response being sent                                    *)
(***************************************************************************)
Tick ==
    /\ now < MaxTime
    /\ now' = now + 1
    /\ UNCHANGED <<event_occurrences, registration, surveys, reqs>>
    /\ UNCHANGED <<accVars, adminVars>>

Finish(p) ==
    /\ reqs[p].pc = "done"
    /\ reqs' = [reqs EXCEPT ![p] = Idle]
    /\ UNCHANGED <<now, event_occurrences, registration, surveys>>
    /\ UNCHANGED <<accVars, adminVars>>

EngineSessions == {Unauthenticated} \cup {LoggedIn(u, user_role(u)) : u \in Users}

Step(p) ==
    \/ LoadEvent(p)
    \/ DupCheck(p)
    \/ CountCheck(p)
    \/ InsertRegistration(p)
    \/ CancelLoad(p)
    \/ CancelUpdate(p)
    \/ Finish(p)

Next ==
    \/ \E p \in Procs, s \in EngineSessions, e \in ReqOccIds : StartRegister(p, s, e)
    \/ \E p \in Procs, s \in EngineSessions, id \in ReqRegIds : StartCancel(p, s, id)
    \/ \E p \in Procs : Step(p)
    \/ Tick

Spec == DbInit /\ [][Next]_vars

\* the same requests, each completing before the next one starts
AllIdle == \A p \in Procs : reqs[p].pc = "idle"

NextSeq ==
    \/ \E p \in Procs, s \in EngineSessions, e \in ReqOccIds :
          AllIdle /\ StartRegister(p, s, e)
    \/ \E p \in Procs, s \in EngineSessions, id \in ReqRegIds :
          AllIdle /\ StartCancel(p, s, id)
    \/ \E p \in Procs : Step(p)
    \/ Tick

SeqSpec == DbInit /\ [][NextSeq]_vars

\* the same requests against occurrences that start later than the clock
\* can reach the deadline
GateStarts == Starts \cup {MaxTime}

GateInit ==
    /\ method = "GET"
    /\ path = <<"">>
    /\ session = Unauthenticated
    /\ res = NoResponse
    /\ handler = NoHandler
    /\ now = 0
    /\ event_occurrences \in
         [OccIds -> [event_capacity : Capacities,
                     event_date_time_start : GateStarts,
                     event_registration_deadline : Deadlines]]
    /\ registration = << >>
    /\ surveys = << >>
    /\ AdminIdle
    /\ reqs = [p \in Procs |-> Idle]

GateSpec == GateInit /\ [][NextSeq]_vars

(***************************************************************************)
(* GET /add-survey/:registration_id/:event_occurrence_id (the form) and    *)
(* POST /add-survey/:registration_id (the submission)                      *)
(***************************************************************************)
\* a score a form field carries: the string of one of the radio buttons
ScoreStrings == { <<"1">>, <<"2">>, <<"3">>, <<"4">>, <<"5">> }

\* the four scores of a submitted form, as the strings of req.body:
\* satisfaction, usefulness, instructor, recommendation
SurveyBodies == { << <<"5">>, <<"4">>, <<"3">>, <<"4">> >>,
                  << <<"2">>, <<"3">>, <<"3">>, <<"2">> >> }

Digits == <<"0", "1", "2", "3", "4", "5", "6", "7", "8", "9">>
IsDigit(c) == \E n \in 1..Len(Digits) : Digits[n] = c
DigitValue(c) == (CHOOSE n \in 1..Len(Digits) : Digits[n] = c) - 1

\* the value no number is equal to
NaN == -2

\* the length of the run of digits a string starts with
RECURSIVE LeadingDigits(_)
LeadingDigits(s) ==
    IF s = << >> \/ ~IsDigit(Head(s)) THEN 0 ELSE 1 + LeadingDigits(Tail(s))

\* the number a string of digits is the decimal notation of
RECURSIVE DecimalValue(_)
DecimalValue(s) ==
    IF s = << >> THEN 0
    ELSE 10 * DecimalValue(SubSeq(s, 1, Len(s) - 1)) + DigitValue(s[Len(s)])

\* parseInt(string): the digits the string starts with, NaN without any
parseInt(s) ==
    IF LeadingDigits(s) = 0 THEN NaN
    ELSE DecimalValue(SubSeq(s, 1, LeadingDigits(s)))

\* parseFloat(string), of a string without a decimal point
parseFloat(s) == parseInt(s)

\* a string bound to a column of type integer
integerColumn(s) == parseInt(s)

\* the sum of the scores as the earlier version forms it: the operator + on
\* four strings concatenates them, and the division converts the result
overall_scoreEarlier(b) ==
    LET joined == b[1] \o b[2] \o b[3] \o b[4]
    IN  IF parseInt(joined) = NaN THEN NaN
        ELSE (parseInt(joined) * 100) \div 4

\* (parseFloat(satisfaction) + parseFloat(usefulness) + parseFloat(instructor)
\* + parseFloat(recommendation)) / 4, in hundredths as the column
\* decimal(4, 2) holds it
overall_score(b) ==
    IF \E i \in 1..4 : parseFloat(b[i]) = NaN THEN NaN
    ELSE ((parseFloat(b[1]) + parseFloat(b[2]) + parseFloat(b[3])
             + parseFloat(b[4])) * 100) \div 4

\* the value a column decimal(4, 2) cannot hold: not a number, or 100 and more
DecimalOverflow(hundredths) == hundredths = NaN \/ hundredths >= 10000

\* the bucket on the thresholds of the 0 to 10 scale
nps_bucketTenScale(recommendation_score) ==
    LET n == parseInt(recommendation_score)
    IN  IF n # NaN /\ n >= 9 THEN "Promoter"
        ELSE IF n # NaN /\ n < 7 THEN "Detractor"
        ELSE "Passive"

nps_bucket(recommendation_score) ==
    LET n == parseInt(recommendation_score)
    IN  IF n # NaN /\ n >= 4 THEN "Promoter"
        ELSE IF n # NaN /\ n < 3 THEN "Detractor"
        ELSE "Passive"

SurveyFormPath(id, e) == <<"add-survey", IdSegment(id), IdSegment(e)>>
SurveyPath(id) == <<"add-survey", IdSegment(id)>>

SurveyExists(id) == HasRow(surveys, LAMBDA r : r.registration_id = id)

\* the submissions that may still insert a survey row
Submitting == {p \in Procs : reqs[p].route = "survey" /\ reqs[p].pc # "done"}

StartSurveyForm(p, s, id, e) ==
    /\ reqs[p].pc = "idle"
    /\ LET r == [Idle EXCEPT !.route = "survey_form", !.session = s,
                             !.registration_id = id, !.event_occurrence_id = e]
           answer == Authenticate(SurveyFormPath(id, e), s)
       IN  reqs' = [reqs EXCEPT ![p] =
                IF answer.action # "next" THEN Done(r, Decision(answer))
                ELSE [r EXCEPT !.pc = "form_check"]]
    /\ UNCHANGED <<now, event_occurrences, registration, surveys>>
    /\ UNCHANGED <<accVars, adminVars>>

\* "First check if survey already exists"
SurveyFormCheck(p) ==
    /\ reqs[p].pc = "form_check"
    /\ reqs' = [reqs EXCEPT ![p] =
          IF SurveyExists(reqs[p].registration_id)
          THEN Done(reqs[p], "AlreadyExists")
          ELSE [reqs[p] EXCEPT !.pc = "form_load"]]
    /\ UNCHANGED <<now, event_occurrences, registration, surveys>>
    /\ UNCHANGED <<accVars, adminVars>>

\* "Fetch event occurrence data for the survey form"
SurveyFormLoad(p) ==
    /\ reqs[p].pc = "form_load"
    /\ reqs' = [reqs EXCEPT ![p] =
          IF reqs[p].event_occurrence_id \notin DOMAIN event_occurrences
          THEN Done(reqs[p], "NotFound")
          ELSE Done(reqs[p], "Form")]
    /\ UNCHANGED <<now, event_occurrences, registration, surveys>>
    /\ UNCHANGED <<accVars, adminVars>>

StartSurvey(p, s, id, b) ==
    /\ reqs[p].pc = "idle"
    /\ Len(surveys) + Cardinality(Submitting) < MaxSurveys
    /\ LET r == [Idle EXCEPT !.route = "survey", !.session = s,
                             !.registration_id = id, !.body = b]
           answer == Authenticate(SurveyPath(id), s)
       IN  reqs' = [reqs EXCEPT ![p] =
                IF answer.action # "next" THEN Done(r, Decision(answer))
                ELSE [r EXCEPT !.pc = "survey_insert"]]
    /\ UNCHANGED <<now, event_occurrences, registration, surveys>>
    /\ UNCHANGED <<accVars, adminVars>>

\* the insert; it fails on the foreign key registration_id and on a value
\* a column cannot hold
SurveyInsert(p) ==
    /\ reqs[p].pc = "survey_insert"
    /\ LET id == reqs[p].registration_id
           b == reqs[p].body
       IN  IF \/ ~HasRow(registration, LAMBDA r : r.registration_id = id)
              \/ DecimalOverflow(overall_score(b))
              \/ \E i \in 1..4 : integerColumn(b[i]) = NaN
           THEN /\ reqs' = [reqs EXCEPT ![p] = Done(reqs[p], "Error")]
                /\ UNCHANGED surveys
           ELSE /\ surveys' = Append(surveys,
                      [survey_id |-> Len(surveys) + 1,
                       registration_id |-> id,
                       satisfaction_score |-> integerColumn(b[1]),
                       usefulness_score |-> integerColumn(b[2]),
                       instructor_score |-> integerColumn(b[3]),
                       recommendation_score |-> integerColumn(b[4]),
                       overall_score |-> overall_score(b),
                       nps_bucket |-> nps_bucket(b[4])])
                /\ reqs' = [reqs EXCEPT ![p] = Done(reqs[p], "Ok")]
    /\ UNCHANGED <<now, event_occurrences, registration>>
    /\ UNCHANGED <<accVars, adminVars>>

\* the registrations the surveys are about: user 1 attended occurrence 1,
\* user 2 registered and cancelled; the occurrence is over
SurveyInit ==
    /\ method = "GET"
    /\ path = <<"">>
    /\ session = Unauthenticated
    /\ res = NoResponse
    /\ handler = NoHandler
    /\ now = MaxTime
    /\ event_occurrences \in
         [OccIds -> [event_capacity : {NULL},
                     event_date_time_start : Starts,
                     event_registration_deadline : {NULL}]]
    /\ registration \in
         { <<[registration_id |-> 1, user_id |-> 1, event_occurrence_id |-> 1,
              registration_status |-> NullStatus]>>,
           <<[registration_id |-> 1, user_id |-> 1, event_occurrence_id |-> 1,
              registration_status |-> NullStatus],
             [registration_id |-> 2, user_id |-> 2, event_occurrence_id |-> 1,
              registration_status |-> "Cancelled"]>> }
    /\ surveys = << >>
    /\ AdminIdle
    /\ reqs = [p \in Procs |-> Idle]

SurveyNext ==
    \/ \E p \in Procs, s \in EngineSessions, id \in ReqRegIds, e \in ReqOccIds :
          StartSurveyForm(p, s, id, e)
    \/ \E p \in Procs, s \in EngineSessions, id \in ReqRegIds, b \in SurveyBodies :
          StartSurvey(p, s, id, b)
    \/ \E p \in Procs : SurveyFormCheck(p)
    \/ \E p \in Procs : SurveyFormLoad(p)
    \/ \E p \in Procs : SurveyInsert(p)
    \/ \E p \in Procs : Finish(p)

SurveySpec == SurveyInit /\ [][SurveyNext]_vars

\* one submission of every form that can be filled in, for the registration
\* of user 1, past the middleware
ScoreInit ==
    /\ method = "GET"
    /\ path = <<"">>
    /\ session = Unauthenticated
    /\ res = NoResponse
    /\ handler = NoHandler
    /\ now = MaxTime
    /\ event_occurrences =
         [e \in OccIds |-> [event_capacity |-> NULL,
                            event_date_time_start |-> 1,
                            event_registration_deadline |-> NULL]]
    /\ registration =
         <<[registration_id |-> 1, user_id |-> 1, event_occurrence_id |-> 1,
            registration_status |-> NullStatus]>>
    /\ surveys = << >>
    /\ AdminIdle
    /\ \E b \in [1..4 -> ScoreStrings] :
          reqs = [p \in Procs |->
                    IF p = 1
                    THEN [Idle EXCEPT !.route = "survey",
                                      !.session = LoggedIn(1, user_role(1)),
                                      !.registration_id = 1, !.body = b,
                                      !.pc = "survey_insert"]
                    ELSE Idle]

ScoreNext ==
    \/ \E p \in Procs : SurveyInsert(p)
    \/ \E p \in Procs : Finish(p)

ScoreSpec == ScoreInit /\ [][ScoreNext]_vars

(***************************************************************************)
(* The admin list pages: GET /manage-event-occurrences, /manage-events,    *)
(* /manage-milestones, /manage-donations, /manage-surveys and              *)
(* /manage-participants, each a data query with limit and offset and a     *)
(* count query, run together by Promise.all                                *)
(***************************************************************************)
perPage == 20        \* const perPage = 20 of every list handler
MaxPage == 4         \* the pages a request asks for run from 1 to MaxPage

\* String.prototype.trim, for the space character
RECURSIVE trimStart(_)
trimStart(s) ==
    IF s # << >> /\ Head(s) = " " THEN trimStart(Tail(s)) ELSE s

RECURSIVE trimEnd(_)
trimEnd(s) ==
    IF s # << >> /\ s[Len(s)] = " " THEN trimEnd(SubSeq(s, 1, Len(s) - 1)) ELSE s

trim(s) == trimEnd(trimStart(s))

\* column ilike '%' + term + '%', for a term without % and _: the column
\* contains the term, whatever the case of the letters
ilike(column, term) ==
    LET c == toLowerCase(column)
        s == toLowerCase(term)
    IN  \E i \in 0..(Len(c) - Len(s)) : SubSeq(c, i + 1, i + Len(s)) = s

\* concat_ws(' ', a, b) of two strings that are not null
concat_ws(sep, a, b) == a \o sep \o b

\* the row of a table with a given id (the ids are primary keys)
HasId(table, key, id) == \E i \in 1..Len(table) : table[i][key] = id
RowWithId(table, key, id) ==
    table[CHOOSE i \in 1..Len(table) : table[i][key] = id]

\* donations inner join users
DonationsUsers ==
    LET ds == SelectSeq(donations, LAMBDA d : HasId(users, "user_id", d.user_id))
    IN  [i \in 1..Len(ds) |->
            [id |-> ds[i].donation_id,
             user |-> RowWithId(users, "user_id", ds[i].user_id)]]

\* surveys inner join registration inner join users inner join
\* event_occurrences
SurveysJoined ==
    LET ss == SelectSeq(surveys, LAMBDA s :
                 /\ HasId(registration, "registration_id", s.registration_id)
                 /\ LET r == RowWithId(registration, "registration_id",
                                       s.registration_id)
                    IN  /\ HasId(users, "user_id", r.user_id)
                        /\ r.event_occurrence_id \in DOMAIN event_occurrences)
    IN  [i \in 1..Len(ss) |->
            LET r == RowWithId(registration, "registration_id",
                               ss[i].registration_id)
            IN  [id |-> ss[i].survey_id,
                 user |-> RowWithId(users, "user_id", r.user_id),
                 event |-> event_occurrences[r.event_occurrence_id]]]

\* table event_occurrences as the sequence of its rows
OccurrenceRows ==
    [i \in 1..Cardinality(DOMAIN event_occurrences) |->
        [id |-> i, event |-> event_occurrences[i]]]

\* first name, last name or full name of a user contains the term
NameFilter(user, term) ==
    \/ ilike(user.user_first_name, term)
    \/ ilike(user.user_last_name, term)
    \/ ilike(concat_ws(<<" ">>, user.user_first_name, user.user_last_name), term)

ListPages ==
    {"manage-event-occurrences", "manage-events", "manage-milestones",
     "manage-donations", "manage-surveys", "manage-participants"}

\* the rows the data query of a list page selects, before limit and offset
DataQuery(page_name, searchQuery) ==
    LET term == trim(searchQuery)
        all == term = << >>
    IN  CASE page_name = "manage-event-occurrences" ->
               SelectSeq(OccurrenceRows, LAMBDA r :
                   all \/ ilike(r.event.event_name, term)
                       \/ ilike(r.event.event_location, term))
          [] page_name = "manage-events" ->
               SelectSeq(event_templates, LAMBDA r :
                   all \/ ilike(r.event_name, term))
          [] page_name = "manage-milestones" ->
               SelectSeq(milestones, LAMBDA r :
                   all \/ ilike(r.milestone_title, term))
          [] page_name = "manage-donations" ->
               SelectSeq(DonationsUsers, LAMBDA r :
                   all \/ NameFilter(r.user, term))
          [] page_name = "manage-surveys" ->
               SelectSeq(SurveysJoined, LAMBDA r :
                   all \/ ilike(r.user.user_first_name, term)
                       \/ ilike(r.user.user_last_name, term)
                       \/ ilike(r.event.event_name, term)
                       \/ ilike(concat_ws(<<" ">>, r.user.user_first_name,
                                          r.user.user_last_name), term))
          [] page_name = "manage-participants" ->
               SelectSeq(users, LAMBDA r : all \/ NameFilter(r, term))

\* the rows the count query of a list page counts
CountQuery(page_name, searchQuery) ==
    LET term == trim(searchQuery)
        all == term = << >>
    IN  CASE page_name = "manage-event-occurrences" ->
               SelectSeq(OccurrenceRows, LAMBDA r :
                   all \/ ilike(r.event.event_name, term)
                       \/ ilike(r.event.event_location, term))
          [] page_name = "manage-events" ->
               SelectSeq(event_templates, LAMBDA r :
                   all \/ ilike(r.event_name, term))
          [] page_name = "manage-milestones" ->
               SelectSeq(milestones, LAMBDA r :
                   all \/ ilike(r.milestone_title, term))
          [] page_name = "manage-donations" ->
               SelectSeq(DonationsUsers, LAMBDA r :
                   all \/ NameFilter(r.user, term))
          [] page_name = "manage-surveys" ->
               SelectSeq(SurveysJoined, LAMBDA r :
                   all \/ ilike(r.user.user_first_name, term)
                       \/ ilike(r.user.user_last_name, term)
                       \/ ilike(r.event.event_name, term)
                       \/ ilike(concat_ws(<<" ">>, r.user.user_first_name,
                                          r.user.user_last_name), term))
          [] page_name = "manage-participants" ->
               SelectSeq(users, LAMBDA r :
                   all \/ ilike(r.user_first_name, term)
                       \/ ilike(r.user_last_name, term))

\* the primary key of a row of a list page
RowId(page_name, r) ==
    CASE page_name = "manage-events" -> r.event_template_id
      [] page_name = "manage-milestones" -> r.milestone_id
      [] page_name = "manage-participants" -> r.user_id
      [] OTHER -> r.id

RowIds(page_name, rows) == [i \in 1..Len(rows) |-> RowId(page_name, rows[i])]

Min(a, b) == IF a <= b THEN a ELSE b

\* .limit(perPage).offset(offset) of the rows a query selects; the order
\* of the rows is that of the table
LimitOffset(rows, limit, offset) ==
    SubSeq(rows, offset + 1, Min(Len(rows), offset + limit))

\* Math.ceil(totalCount / perPage)
CeilDiv(n, d) == (n + d - 1) \div d

\* a local that is not passed to res.render
Missing == -3

\* parseInt(req.query.page, 10) || 1
PageNumber(s) == IF parseInt(s) = NaN \/ parseInt(s) = 0 THEN 1 ELSE parseInt(s)

\* the page a list handler renders when its two queries succeed
ListView(page_name, searchQuery, page) ==
    LET offset == (page - 1) * perPage
        totalCount == Len(CountQuery(page_name, searchQuery))
    IN  [name |-> page_name,
         rows |-> RowIds(page_name,
                         LimitOffset(DataQuery(page_name, searchQuery),
                                     perPage, offset)),
         currentPage |-> page,
         totalPages |-> CeilDiv(totalCount, perPage),
         totalCount |-> totalCount,
         searchQuery |-> searchQuery,
         error_message |-> ""]

\* the page of the .catch of a list handler
ListErrorView(page_name, searchQuery, page) ==
    IF page_name \in {"manage-event-occurrences", "manage-events"}
    THEN [name |-> page_name, rows |-> << >>, currentPage |-> page,
          totalPages |-> 0, totalCount |-> 0, searchQuery |-> searchQuery,
          error_message |-> "Error fetching event information"]
    ELSE [name |-> page_name, rows |-> << >>, currentPage |-> Missing,
          totalPages |-> Missing, totalCount |-> Missing,
          searchQuery |-> searchQuery,
          error_message |->
             CASE page_name = "manage-milestones" ->
                    "Error fetching milestone information"
               [] page_name = "manage-surveys" -> "Error fetching surveys"
               [] page_name = "manage-participants" -> "Error fetching users."]

\* the login view of the middleware, for a request it does not pass on
DeniedView(answer) ==
    [name |-> answer.view, error_message |-> answer.error_message]

\* GET of a list page other than /manage-donations, answered once: the
\* middleware, the two queries, the render; failed says that a query was
\* rejected
ListPage(page_name, s, searchQuery, pageString, failed) ==
    /\ rendered = NoView
    /\ LET answer == Authenticate(<<page_name>>, s)
           page == PageNumber(pageString)
       IN  rendered' =
              IF answer.action # "next" THEN DeniedView(answer)
              ELSE IF failed THEN ListErrorView(page_name, searchQuery, page)
              ELSE ListView(page_name, searchQuery, page)
    /\ UNCHANGED <<users, donations, event_templates, milestones, user_milestones>>
    /\ UNCHANGED <<now, event_occurrences, registration, surveys, reqs>>
    /\ UNCHANGED accVars

ManageEventOccurrences(s, q, pg, failed) ==
    ListPage("manage-event-occurrences", s, q, pg, failed)
ManageEvents(s, q, pg, failed) == ListPage("manage-events", s, q, pg, failed)
ManageMilestones(s, q, pg, failed) == ListPage("manage-milestones", s, q, pg, failed)
ManageSurveys(s, q, pg, failed) == ListPage("manage-surveys", s, q, pg, failed)
ManageParticipants(s, q, pg, failed) ==
    ListPage("manage-participants", s, q, pg, failed)

\* Date.getFullYear and Date.getMonth of a time counted in months
getFullYear(d) == d \div 12
getMonth(d) == d % 12

\* knex('donations').sum('donation_amount').where(...): the sum of the
\* amounts that are not null, null without any
RECURSIVE Total(_)
Total(rows) ==
    IF rows = << >> THEN 0 ELSE Head(rows).donation_amount + Total(Tail(rows))

SumDonations(Test(_)) ==
    LET rows == SelectSeq(donations,
                          LAMBDA d : Test(d) /\ d.donation_amount # NULL)
    IN  IF rows = << >> THEN NULL ELSE Total(rows)

totalDonationsQuery == SumDonations(LAMBDA d : TRUE)

totalYearlyDonationsQuery ==
    LET startOfYear == getFullYear(now) * 12
        endOfYear == getFullYear(now) * 12 + 11
    IN  SumDonations(LAMBDA d : /\ d.donation_date # NULL
                                /\ d.donation_date >= startOfYear
                                /\ d.donation_date <= endOfYear)

totalMonthlyDonationsQuery ==
    LET startOfMonth == getFullYear(now) * 12 + getMonth(now)
        endOfMonth == getFullYear(now) * 12 + getMonth(now)
    IN  SumDonations(LAMBDA d : /\ d.donation_date # NULL
                                /\ d.donation_date >= startOfMonth
                                /\ d.donation_date <= endOfMonth)

\* the five queries of GET /manage-donations
DonationQueries == {"donations", "count", "total", "yearly", "monthly"}

\* GET /manage-donations: the list page and the three sums; F is the set of
\* the queries that are rejected, kept beside the locals as rejected
ManageDonations(s, searchQuery, pageString, F) ==
    /\ rendered = NoView
    /\ LET answer == Authenticate(<<"manage-donations">>, s)
           page == PageNumber(pageString)
           list == ListView("manage-donations", searchQuery, page)
       IN  rendered' =
              IF answer.action # "next" THEN DeniedView(answer)
              ELSE IF F # {}
              THEN [name |-> "manage-donations", rows |-> << >>,
                    currentPage |-> page, totalPages |-> 0, totalCount |-> 0,
                    totalDonations |-> Missing,
                    totalYearlyDonations |-> Missing,
                    totalMonthlyDonations |-> Missing,
                    searchQuery |-> searchQuery, rejected |-> F,
                    error_message |-> "Error fetching donation/user information."]
              ELSE [name |-> "manage-donations", rows |-> list.rows,
                    currentPage |-> page, totalPages |-> list.totalPages,
                    totalCount |-> list.totalCount,
                    totalDonations |-> totalDonationsQuery,
                    totalYearlyDonations |-> totalYearlyDonationsQuery,
                    totalMonthlyDonations |-> totalMonthlyDonationsQuery,
                    searchQuery |-> searchQuery, rejected |-> F,
                    error_message |-> ""]
    /\ UNCHANGED <<users, donations, event_templates, milestones, user_milestones>>
    /\ UNCHANGED <<now, event_occurrences, registration, surveys, reqs>>
    /\ UNCHANGED accVars

\* the numbers of rows that fill no page, part of a page, a page exactly
\* and a page and one row
PageFill == {0, 1, perPage, perPage + 1}

\* req.query.search: absent, blank, part of a first name, part of a full
\* name across the space, a last name in capitals, a first name between
\* spaces, and a text no row has
SearchStrings ==
    { << >>, <<" ">>, <<"a", "n">>, <<"n", " ", "d">>, <<"P", "I">>,
      <<" ", "m", "a", " ">>, <<"z">> }

\* req.query.page: absent, "0", and "1" to the decimal notation of MaxPage
PageStrings == { << >>, <<"0">> } \cup { <<Digits[n + 1]>> : n \in 1..MaxPage }

ListSessions ==
    { Unauthenticated, LoggedIn(1, adminLower), LoggedIn(1, participantLevel) }

\* every table holds nA rows about the people and events named as TextA and
\* nB rows named as TextB; user i donated once, registered for occurrence i
\* and answered its survey
ListInit ==
    /\ method = "GET"
    /\ path = <<"">>
    /\ session = Unauthenticated
    /\ res = NoResponse
    /\ handler = NoHandler
    /\ now = 0
    /\ reqs = [p \in Procs |-> Idle]
    /\ rendered = NoView
    /\ user_milestones = << >>
    /\ \E nA \in PageFill, nB \in PageFill :
          LET text(i) == IF i <= nA THEN TextA ELSE TextB
              N == 1..(nA + nB)
          IN  /\ users = [i \in N |-> UserRow(i, text(i))]
              /\ donations =
                    [i \in N |-> [donation_id |-> i, user_id |-> i,
                                  donation_amount |-> 100, donation_date |-> 0]]
              /\ event_templates =
                    [i \in N |-> [event_template_id |-> i,
                                  event_name |-> text(i).first]]
              /\ milestones =
                    [i \in N |-> [milestone_id |-> i,
                                  milestone_title |-> text(i).last]]
              /\ event_occurrences =
                    [i \in N |-> [event_capacity |-> NULL,
                                  event_date_time_start |-> 1,
                                  event_date_time_end |-> NULL,
                                  event_registration_deadline |-> NULL,
                                  event_name |-> text(i).first,
                                  event_location |-> text(i).last]]
              /\ registration =
                    [i \in N |-> [registration_id |-> i, user_id |-> i,
                                  event_occurrence_id |-> i,
                                  registration_status |-> NullStatus]]
              /\ surveys =
                    [i \in N |-> [survey_id |-> i, registration_id |-> i,
                                  satisfaction_score |-> 5,
                                  usefulness_score |-> 4,
                                  instructor_score |-> 3,
                                  recommendation_score |-> 4,
                                  overall_score |-> 400,
                                  nps_bucket |-> "Promoter"]]

ListNext ==
    \E s \in ListSessions, q \in SearchStrings, pg \in PageStrings :
        \/ \E failed \in BOOLEAN : ManageEventOccurrences(s, q, pg, failed)
        \/ \E failed \in BOOLEAN : ManageEvents(s, q, pg, failed)
        \/ \E failed \in BOOLEAN : ManageMilestones(s, q, pg, failed)
        \/ \E failed \in BOOLEAN : ManageSurveys(s, q, pg, failed)
        \/ \E failed \in BOOLEAN : ManageParticipants(s, q, pg, failed)
        \/ \E F \in SUBSET DonationQueries : ManageDonations(s, q, pg, F)

ListSpec == ListInit /\ [][ListNext]_vars

(***************************************************************************)
(* GET /dashboard: seven queries, each with its own .catch                 *)
(***************************************************************************)
DashboardQueries ==
    {"totalDonations", "upcomingEvent", "totalParticipants", "upcomingEvents",
     "upcomingReservations", "milestonesCompleted", "surveysPending"}

\* knex('users').count('* as count')
totalParticipantsQuery == Len(users)

\* the occurrences with event_date_time_start >= currentDate
Upcoming(currentDate) ==
    {e \in DOMAIN event_occurrences :
        /\ event_occurrences[e].event_date_time_start # NULL
        /\ event_occurrences[e].event_date_time_start >= currentDate}

upcomingEventsCountQuery(currentDate) == Cardinality(Upcoming(currentDate))

\* .orderBy('event_date_time_start', 'asc').first(): the occurrences the
\* query can return, one of those that start first, null without any
upcomingEventQuery(currentDate) ==
    IF Upcoming(currentDate) = {} THEN {NULL}
    ELSE {e \in Upcoming(currentDate) :
            \A f \in Upcoming(currentDate) :
                event_occurrences[e].event_date_time_start
                   <= event_occurrences[f].event_date_time_start}

\* registration join event_occurrences: the rows whose occurrence exists
RegistrationsJoined ==
    SelectSeq(registration,
              LAMBDA r : r.event_occurrence_id \in DOMAIN event_occurrences)

upcomingReservationsQuery(currentUserId, currentDate) ==
    CountWhere(RegistrationsJoined, LAMBDA r :
        /\ r.user_id = currentUserId
        /\ r.registration_status = NullStatus
        /\ r.event_occurrence_id \in Upcoming(currentDate))

milestonesCompletedQuery(currentUserId) ==
    CountWhere(user_milestones, LAMBDA r : r.user_id = currentUserId)

\* registration join event_occurrences left join surveys, where the user is
\* the current one, the occurrence started before currentDate and
\* surveys.survey_id is null: a registration without a survey gives one
\* row, a registration with surveys none
surveysPendingQuery(currentUserId, currentDate) ==
    CountWhere(RegistrationsJoined, LAMBDA r :
        /\ r.user_id = currentUserId
        /\ event_occurrences[r.event_occurrence_id].event_date_time_start # NULL
        /\ event_occurrences[r.event_occurrence_id].event_date_time_start
              < currentDate
        /\ ~HasRow(surveys, LAMBDA s : s.registration_id = r.registration_id))

\* result.total_donations || 0
OrZero(n) == IF n = NULL \/ n = 0 THEN 0 ELSE n

\* GET /dashboard, answered once: F is the set of the queries that are
\* rejected (kept beside the locals as rejected, with the user asking);
\* each rejected query gives the value of its .catch
Dashboard(s, F) ==
    /\ rendered = NoView
    /\ LET answer == Authenticate(<<"dashboard">>, s)
           currentUserId == s.user_id
           currentDate == now
       IN  \E upcomingEvent \in upcomingEventQuery(currentDate) :
             rendered' =
               IF answer.action # "next" THEN DeniedView(answer)
               ELSE [name |-> "dashboard",
                     error_message |-> "",
                     totalDonations |->
                        IF "totalDonations" \in F THEN 0
                        ELSE OrZero(totalDonationsQuery),
                     upcomingEvent |->
                        IF "upcomingEvent" \in F THEN NULL ELSE upcomingEvent,
                     totalParticipants |->
                        IF "totalParticipants" \in F THEN 0
                        ELSE totalParticipantsQuery,
                     upcomingEvents |->
                        IF "upcomingEvents" \in F THEN 0
                        ELSE upcomingEventsCountQuery(currentDate),
                     upcomingReservations |->
                        IF "upcomingReservations" \in F THEN 0
                        ELSE upcomingReservationsQuery(currentUserId, currentDate),
                     milestonesCompleted |->
                        IF "milestonesCompleted" \in F THEN 0
                        ELSE milestonesCompletedQuery(currentUserId),
                     surveysPending |->
                        IF "surveysPending" \in F THEN 0
                        ELSE surveysPendingQuery(currentUserId, currentDate),
                     user_id |-> currentUserId,
                     rejected |-> F]
    /\ UNCHANGED <<users, donations, event_templates, milestones, user_milestones>>
    /\ UNCHANGED <<now, event_occurrences, registration, surveys, reqs>>
    /\ UNCHANGED accVars

\* the rows of a table, numbered by their place: row i gets the id i
Numbered(rows, key) ==
    [i \in 1..Len(rows) |-> [k \in {key} \cup DOMAIN rows[i] |->
                                IF k = key THEN i ELSE rows[i][k]]]

\* the contents table donations is drawn from; the dates count months, the
\* amounts cents
DonationTables ==
    { << >>,
      <<[user_id |-> 1, donation_date |-> 1, donation_amount |-> 100]>>,
      <<[user_id |-> 1, donation_date |-> 0, donation_amount |-> 100],
        [user_id |-> 2, donation_date |-> 1, donation_amount |-> 250],
        [user_id |-> 2, donation_date |-> 12, donation_amount |-> 500],
        [user_id |-> 1, donation_date |-> NULL, donation_amount |-> NULL]>> }

\* the store the dashboard is asked about: two users, occurrence 1 before
\* or after the clock, with or without an end, occurrence 2 still to come;
\* registrations of user 1 for both, of user 2 for occurrence 1; a survey
\* for the first registration or none
DashInit ==
    /\ method = "GET"
    /\ path = <<"">>
    /\ session = Unauthenticated
    /\ res = NoResponse
    /\ handler = NoHandler
    /\ now \in {1, 2}
    /\ reqs = [p \in Procs |-> Idle]
    /\ rendered = NoView
    /\ users = [i \in 1..2 |-> UserRow(i, IF i = 1 THEN TextA ELSE TextB)]
    /\ event_templates = << >>
    /\ milestones = << >>
    /\ user_milestones \in { << >>, <<[milestone_id |-> 1, user_id |-> 1]>> }
    /\ \E rows \in DonationTables : donations = Numbered(rows, "donation_id")
    /\ \E start \in {0, 2}, end \in {NULL, 1, 3} :
          event_occurrences =
             [e \in {1, 2} |->
                [event_capacity |-> NULL,
                 event_date_time_start |-> IF e = 1 THEN start ELSE 2,
                 event_date_time_end |-> IF e = 1 THEN end ELSE 3,
                 event_registration_deadline |-> NULL,
                 event_name |-> TextA.first,
                 event_location |-> TextA.last]]
    /\ \E first \in {"absent", NullStatus, "Cancelled"}, second \in BOOLEAN :
          registration =
             Numbered(
                (IF first = "absent" THEN << >>
                 ELSE <<[user_id |-> 1, event_occurrence_id |-> 1,
                         registration_status |-> first]>>)
                \o (IF second
                    THEN <<[user_id |-> 1, event_occurrence_id |-> 2,
                            registration_status |-> NullStatus]>>
                    ELSE << >>)
                \o <<[user_id |-> 2, event_occurrence_id |-> 1,
                      registration_status |-> NullStatus]>>,
                "registration_id")
    /\ surveys \in
          { << >>,
            <<[survey_id |-> 1, registration_id |-> 1,
               satisfaction_score |-> 5, usefulness_score |-> 4,
               instructor_score |-> 3, recommendation_score |-> 4,
               overall_score |-> 400, nps_bucket |-> "Promoter"]>> }

DashSessions ==
    { Unauthenticated, LoggedIn(1, participantLevel), LoggedIn(2, adminLower) }

DashNext ==
    \/ \E s \in DashSessions, F \in SUBSET DashboardQueries : Dashboard(s, F)
    \/ \E s \in DashSessions, F \in SUBSET DonationQueries :
          ManageDonations(s, << >>, << >>, F)

DashSpec == DashInit /\ [][DashNext]_vars

(***************************************************************************)
(* Properties of the registration engine                                   *)
(***************************************************************************)
RowsFor(u, e) ==
    CountWhere(registration, LAMBDA r : r.user_id = u /\ r.event_occurrence_id = e)

ActiveRowsFor(u, e) ==
    CountWhere(registration, LAMBDA r : /\ r.user_id = u
                                        /\ r.event_occurrence_id = e
                                        /\ r.registration_status = NullStatus)

NonCancelledCount(e) ==
    CountWhere(registration, LAMBDA r : /\ r.event_occurrence_id = e
                                        /\ r.registration_status # "Cancelled")

CancelledRowFor(u, e) ==
    HasRow(registration, LAMBDA r : /\ r.user_id = u
                                    /\ r.event_occurrence_id = e
                                    /\ r.registration_status = "Cancelled")

DistinctUsers(e) == \A u \in Users : RowsFor(u, e) <= 1

\* C1: capacity invariant under concurrency.  Whatever the interleaving of
\* register requests by distinct users against an occurrence of capacity
\* C >= 1, the occurrence never has more than C registration rows that are
\* not cancelled.
CapacityInvariant ==
    \A e \in OccIds :
        (event_occurrences[e].event_capacity >= 1 /\ DistinctUsers(e))
            => NonCancelledCount(e) <= event_occurrences[e].event_capacity

\* C2: duplicate invariant under concurrency.  Whatever the interleaving of
\* register and cancel requests, a user has at most one active (status
\* unset) registration row for an occurrence.
DuplicateInvariant ==
    \A u \in Users, e \in OccIds : ActiveRowsFor(u, e) <= 1

\* a register request of slot p, and the user and occurrence it is for
IsRegister(p) == reqs[p].route = "register"
UserOf(p) == reqs[p].session.user_id
OccOf(p) == reqs[p].event_occurrence_id

\* C3: sequential duplicate prevention.  When register calls are made one
\* after the other, a user never has two rows for an occurrence: a call made
\* while the user has a row never gets past the duplicate check, it ends
\* with AlreadyRegistered and the one row is still the only one; a call that
\* ends Ok has inserted the user's only row; and a call fails only for a
\* reason that holds (so on an open occurrence with free capacity the first
\* call succeeds).
SequentialDuplicatePrevention ==
    /\ \A u \in Users, e \in OccIds : RowsFor(u, e) <= 1
    /\ \A p \in Procs : IsRegister(p) =>
        /\ reqs[p].pc \in {"count", "insert"}
              => RowsFor(UserOf(p), OccOf(p)) = 0
        /\ (reqs[p].pc = "done" /\ reqs[p].result = "Ok")
              => RowsFor(UserOf(p), OccOf(p)) = 1
        /\ (reqs[p].pc = "done" /\ reqs[p].result = "AlreadyRegistered")
              => RowsFor(UserOf(p), OccOf(p)) = 1
        /\ (reqs[p].pc = "done" /\ reqs[p].result = "NotFound")
              => OccOf(p) \notin OccIds
        /\ (reqs[p].pc = "done" /\ reqs[p].result = "AlreadyStarted")
              => reqs[p].event.event_date_time_start < reqs[p].currentDate
        /\ (reqs[p].pc = "done" /\ reqs[p].result = "DeadlinePassed")
              => /\ reqs[p].event.event_registration_deadline # NULL
                 /\ reqs[p].event.event_registration_deadline < reqs[p].currentDate
        /\ (reqs[p].pc = "done" /\ reqs[p].result = "CapacityReached")
              => /\ reqs[p].event.event_capacity >= 1
                 /\ RegistrationCount(OccOf(p)) >= reqs[p].event.event_capacity
        /\ reqs[p].pc = "done"
              => reqs[p].result \in
                    {"CHALLENGE", "NotFound", "AlreadyStarted", "DeadlinePassed",
                     "AlreadyRegistered", "CapacityReached", "Ok"}

\* the second call of C3 has ended: AlreadyRegistered, and the row the first
\* call inserted is the user's only one and is active
SecondRegisterRefused ==
    \E p \in Procs :
        /\ IsRegister(p)
        /\ reqs[p].pc = "done"
        /\ reqs[p].result = "AlreadyRegistered"
        /\ RowsFor(UserOf(p), OccOf(p)) = 1
        /\ ActiveRowsFor(UserOf(p), OccOf(p)) = 1

\* C10 as stated: once a user's registration for an occurrence is cancelled,
\* every later register call of the user for the occurrence ends with
\* AlreadyRegistered.
CancelledAlwaysAlreadyRegistered ==
    \A p \in Procs :
        (IsRegister(p) /\ reqs[p].pc = "done"
            /\ CancelledRowFor(UserOf(p), OccOf(p)))
        => reqs[p].result = "AlreadyRegistered"

\* C10, amended: once a user's registration for an occurrence is cancelled,
\* no later register call of the user for the occurrence succeeds or inserts
\* a row: the call never gets past the duplicate check, and it ends with
\* AlreadyRegistered unless the start or the deadline check, which run
\* first, refuses it (AlreadyStarted, DeadlinePassed).
CancelledStaysBlocked ==
    \A p \in Procs :
        (IsRegister(p) /\ CancelledRowFor(UserOf(p), OccOf(p))) =>
            /\ reqs[p].pc \notin {"count", "insert"}
            /\ RowsFor(UserOf(p), OccOf(p)) = 1
            /\ reqs[p].pc = "done" =>
                 /\ reqs[p].result \in
                       {"AlreadyStarted", "DeadlinePassed", "AlreadyRegistered"}
                 /\ reqs[p].result = "AlreadyStarted"
                       => reqs[p].event.event_date_time_start < reqs[p].currentDate
                 /\ reqs[p].result = "DeadlinePassed"
                       => /\ reqs[p].event.event_registration_deadline # NULL
                          /\ reqs[p].event.event_registration_deadline
                                < reqs[p].currentDate

\* a register call after the cancel has ended with AlreadyRegistered
RegisterAfterCancelRefused ==
    \E p \in Procs :
        /\ IsRegister(p)
        /\ reqs[p].pc = "done"
        /\ reqs[p].result = "AlreadyRegistered"
        /\ CancelledRowFor(UserOf(p), OccOf(p))

\* C11: sequential capacity check.  For an occurrence whose capacity is set
\* to an integer C >= 0, a sequential register call gets past the capacity
\* step, to the insert, only while the count of the occurrence's
\* registrations is below C.
SequentialCapacityCheck ==
    \A p \in Procs :
        (/\ IsRegister(p)
         /\ reqs[p].pc = "insert"
         /\ reqs[p].event.event_capacity # NULL
         /\ reqs[p].event.event_capacity >= 0)
        => RegistrationCount(OccOf(p)) < reqs[p].event.event_capacity

\* C12: deadline gate.  A register call that reads an occurrence whose
\* registration deadline is before the current time and whose start is
\* after it ends with DeadlinePassed without reaching the duplicate check,
\* the capacity check or the insert, whatever the capacity and the rows of
\* table registration.
DeadlineGate ==
    \A p \in Procs :
        (/\ IsRegister(p)
         /\ reqs[p].event # NoEvent
         /\ reqs[p].event.event_registration_deadline # NULL
         /\ reqs[p].event.event_registration_deadline < reqs[p].currentDate
         /\ reqs[p].event.event_date_time_start > reqs[p].currentDate)
        => /\ reqs[p].pc = "done"
           /\ reqs[p].result = "DeadlinePassed"

\* the call of C12 has ended, for an occurrence of unlimited capacity that
\* the user has no row for
DeadlinePassedBeforeStart ==
    \E p \in Procs :
        /\ IsRegister(p)
        /\ reqs[p].pc = "done"
        /\ reqs[p].result = "DeadlinePassed"
        /\ reqs[p].event.event_date_time_start > reqs[p].currentDate
        /\ reqs[p].event.event_capacity = NULL
        /\ RowsFor(UserOf(p), OccOf(p)) = 0

\* C13: start-time gate boundary.  A register call that reads an occurrence
\* whose start is at or before the current time, the case start = now
\* included, ends with AlreadyStarted without reaching the later checks or
\* the insert.
StartTimeGate ==
    \A p \in Procs :
        (/\ IsRegister(p)
         /\ reqs[p].event # NoEvent
         /\ reqs[p].event.event_date_time_start <= reqs[p].currentDate)
        => /\ reqs[p].pc = "done"
           /\ reqs[p].result = "AlreadyStarted"

\* a step of a cancel request in slot p
CancelStep(p) ==
    /\ reqs'[p] # reqs[p]
    /\ reqs[p].route = "cancel" \/ reqs'[p].route = "cancel"

\* table registration after the row with the given id is marked cancelled
WithCancelled(id) ==
    [i \in 1..Len(registration) |->
        IF registration[i].registration_id = id
        THEN [registration_id |-> registration[i].registration_id,
              user_id |-> registration[i].user_id,
              event_occurrence_id |-> registration[i].event_occurrence_id,
              registration_status |-> "Cancelled"]
        ELSE registration[i]]

\* C14: cancel is a soft delete.  The step of a cancel request that ends it
\* with Ok sets the status of the row with the request's id to "Cancelled"
\* and changes no other field, no other row and not the number of rows (so
\* nothing at all when the row is cancelled already); a cancel request for
\* an id no row has ends with NotFound; every other step of a cancel
\* request leaves the table as it is.
CancelSoftDelete ==
    [][\A p \in Procs : CancelStep(p) =>
          IF reqs[p].pc = "cancel_update"
          THEN /\ reqs'[p].result = "Ok"
               /\ registration' = WithCancelled(reqs[p].registration_id)
               /\ Len(registration') = Len(registration)
               /\ HasRow(registration, LAMBDA r :
                      /\ r.registration_id = reqs[p].registration_id
                      /\ r.registration_status = "Cancelled")
                    => registration' = registration
          ELSE /\ registration' = registration
               /\ reqs[p].pc = "cancel_load" =>
                    (reqs'[p].result = "NotFound"
                        <=> ~HasRow(registration, LAMBDA r :
                               r.registration_id = reqs[p].registration_id))
      ]_vars

\* a cancel has ended with Ok: its row is cancelled and another row is still
\* active
CancelledOneOfTwo ==
    \E p \in Procs :
        /\ reqs[p].route = "cancel"
        /\ reqs[p].pc = "done"
        /\ reqs[p].result = "Ok"
        /\ HasRow(registration, LAMBDA r :
               /\ r.registration_id = reqs[p].registration_id
               /\ r.registration_status = "Cancelled")
        /\ HasRow(registration, LAMBDA r :
               /\ r.registration_id # reqs[p].registration_id
               /\ r.registration_status = NullStatus)

(***************************************************************************)
(* Properties of the survey submission                                     *)
(***************************************************************************)
SurveysFor(id) == CountWhere(surveys, LAMBDA r : r.registration_id = id)

\* C9: survey one-to-one.  After any sequence or interleaving of survey
\* submissions, a registration has at most one survey row.
SurveyOneToOne ==
    \A id \in 1..Len(registration) : SurveysFor(id) <= 1

\* the number a radio button of the form stands for
FormValue(s) ==
    CASE s = <<"1">> -> 1 [] s = <<"2">> -> 2 [] s = <<"3">> -> 3
      [] s = <<"4">> -> 4 [] s = <<"5">> -> 5

\* a submission in slot p that has been answered
SurveyDone(p) == reqs[p].route = "survey" /\ reqs[p].pc = "done"

\* C15: NPS bucket.  A submission with recommendation score r in 1..5 for
\* an existing registration is stored, and the stored nps_bucket is
\* "Promoter" if r >= 4, "Detractor" if r < 3 and "Passive" if r = 3,
\* whatever the other three scores are.
NpsBucketRule ==
    \A p \in Procs : SurveyDone(p) =>
        LET r == FormValue(reqs[p].body[4])
        IN  /\ Len(surveys) = 1
            /\ surveys[1].recommendation_score = r
            /\ r >= 4 => surveys[1].nps_bucket = "Promoter"
            /\ r < 3 => surveys[1].nps_bucket = "Detractor"
            /\ r = 3 => surveys[1].nps_bucket = "Passive"

\* recommendation 3 with the three other scores at 5 is stored as Passive
PassiveAtThree ==
    /\ Len(surveys) = 1
    /\ surveys[1].satisfaction_score = 5
    /\ surveys[1].usefulness_score = 5
    /\ surveys[1].instructor_score = 5
    /\ surveys[1].recommendation_score = 3
    /\ surveys[1].nps_bucket = "Passive"

\* C16: overall score.  A submission of four scores in 1..5 for an existing
\* registration ends Ok with one row stored, whose four scores are the
\* submitted ones and whose overall_score (in hundredths) is their exact
\* mean: 4 * overall_score = satisfaction + usefulness + instructor +
\* recommendation.
OverallScoreIsMean ==
    \A p \in Procs : SurveyDone(p) =>
        /\ reqs[p].result = "Ok"
        /\ Len(surveys) = 1
        /\ surveys[1].satisfaction_score = FormValue(reqs[p].body[1])
        /\ surveys[1].usefulness_score = FormValue(reqs[p].body[2])
        /\ surveys[1].instructor_score = FormValue(reqs[p].body[3])
        /\ 4 * surveys[1].overall_score =
              100 * (FormValue(reqs[p].body[1]) + FormValue(reqs[p].body[2])
                       + FormValue(reqs[p].body[3]) + FormValue(reqs[p].body[4]))

\* the scores 5, 4, 3, 4 are stored with overall_score 4.00
ScoresFiveFourThreeFour ==
    /\ Len(surveys) = 1
    /\ surveys[1].satisfaction_score = 5
    /\ surveys[1].usefulness_score = 4
    /\ surveys[1].instructor_score = 3
    /\ surveys[1].recommendation_score = 4
    /\ surveys[1].overall_score = 400

(***************************************************************************)
(* Properties of the admin list pages                                      *)
(***************************************************************************)
\* a list page rendered from the results of its queries
Listed == rendered.name \in ListPages /\ rendered.error_message = ""

\* C17: count/data predicate equality.  For every list page and every
\* search string, the rows the count query counts are the rows the data
\* query selects before limit and offset, and totalCount is their number.
CountDataPredicateEqual ==
    Listed =>
        /\ RowIds(rendered.name, CountQuery(rendered.name, rendered.searchQuery))
             = RowIds(rendered.name, DataQuery(rendered.name, rendered.searchQuery))
        /\ rendered.totalCount
             = Len(DataQuery(rendered.name, rendered.searchQuery))

\* the rows of page k of a list page for a search string
PageRows(page_name, searchQuery, k) ==
    LimitOffset(DataQuery(page_name, searchQuery), perPage, (k - 1) * perPage)

\* C18: pagination consistency.  For every list page and search string,
\* totalPages is the number of pages that hold a row: page k holds a row if
\* and only if k <= totalPages, and so does the page that was rendered.
PaginationConsistent ==
    Listed =>
        /\ \A k \in 1..(MaxPage + 1) :
              PageRows(rendered.name, rendered.searchQuery, k) # << >>
                 <=> k <= rendered.totalPages
        /\ rendered.rows # << >> <=> rendered.currentPage <= rendered.totalPages

(***************************************************************************)
(* Properties of the dashboard and of the donation sums                    *)
(***************************************************************************)
\* the value of a KPI on a rendered page is the value of its query, or the
\* given default if its query was rejected
Degrades(query, value, real, default) ==
    IF query \in rendered.rejected THEN value = default ELSE value = real

\* C19: independent KPI degradation.  Whatever queries are rejected, the
\* page is rendered, every KPI whose query was rejected shows its zero or
\* null default and every other KPI its real value: the seven KPIs of the
\* dashboard, and the three donation sums of /manage-donations.
KpiDegradation ==
    /\ rendered.name = "dashboard" =>
          /\ Degrades("totalDonations", rendered.totalDonations,
                      OrZero(totalDonationsQuery), 0)
          /\ Degrades("totalParticipants", rendered.totalParticipants,
                      Len(users), 0)
          /\ Degrades("upcomingEvents", rendered.upcomingEvents,
                      Cardinality(Upcoming(now)), 0)
          /\ IF "upcomingEvent" \in rendered.rejected
             THEN rendered.upcomingEvent = NULL
             ELSE rendered.upcomingEvent \in upcomingEventQuery(now)
          /\ Degrades("upcomingReservations", rendered.upcomingReservations,
                      upcomingReservationsQuery(rendered.user_id, now), 0)
          /\ Degrades("milestonesCompleted", rendered.milestonesCompleted,
                      milestonesCompletedQuery(rendered.user_id), 0)
          /\ Degrades("surveysPending", rendered.surveysPending,
                      surveysPendingQuery(rendered.user_id, now), 0)
    /\ rendered.name = "manage-donations" =>
          /\ Degrades("total", rendered.totalDonations,
                      totalDonationsQuery, NULL)
          /\ Degrades("yearly", rendered.totalYearlyDonations,
                      totalYearlyDonationsQuery, NULL)
          /\ Degrades("monthly", rendered.totalMonthlyDonations,
                      totalMonthlyDonationsQuery, NULL)

\* the registrations of a user for occurrences that ended before a time,
\* without a survey
PendingByEnd(u, time) ==
    CountWhere(registration, LAMBDA r :
        /\ r.user_id = u
        /\ r.event_occurrence_id \in DOMAIN event_occurrences
        /\ event_occurrences[r.event_occurrence_id].event_date_time_end # NULL
        /\ event_occurrences[r.event_occurrence_id].event_date_time_end < time
        /\ ~HasRow(surveys, LAMBDA s : s.registration_id = r.registration_id))

\* C20: pending-survey count.  The surveysPending the dashboard shows a
\* user is the number of the user's registrations whose occurrence has
\* ended (its end is before now) and that have no survey; a registration
\* for an occurrence that has started but not ended is not counted.
PendingSurveyCount ==
    (rendered.name = "dashboard" /\ "surveysPending" \notin rendered.rejected)
        => rendered.surveysPending = PendingByEnd(rendered.user_id, now)

(***************************************************************************)
(* Properties of the access policy                                         *)
(***************************************************************************)
Answered == res # NoResponse

\* the role equals "admin" up to the case of its letters
CaseInsensitiveAdmin(level) ==
    /\ Len(level) = Len(adminLower)
    /\ \A i \in 1..Len(adminLower) :
          level[i] = adminLower[i] \/ level[i] = AdminUpper[i]

\* C4: access ordering.  A request for a path that matches an admin
\* prefix+suffix pattern, from a session that is not authenticated, is never
\* allowed and never passed to a handler; no such path is in the public
\* allow-list or under /lang/.
AccessOrdering ==
    AdminPattern(path) =>
        /\ path \notin public_routes
        /\ ~startsWith(path, "lang")
        /\ (Answered /\ ~session.isLoggedIn) =>
              /\ Decision(res) \in {"CHALLENGE", "FORBIDDEN"}
              /\ handler = NoHandler

UnauthenticatedAdminRequestDenied ==
    /\ AdminPattern(path)
    /\ ~session.isLoggedIn
    /\ Decision(res) = "FORBIDDEN"

\* C5: public set.  A request for a path of the public allow-list or under
\* /lang/ is allowed whatever the session; GET /teapot is passed to the
\* teapot handler.
PublicSet ==
    (Answered /\ (path \in { <<"">>, <<"login">>, <<"register">>, <<"about">>,
                             <<"events">>, <<"donate">>, <<"analytics">>,
                             <<"teapot">> }
                  \/ (Len(path) >= 2 /\ path[1] = "lang"))) =>
        /\ Decision(res) = "ALLOW"
        /\ (handler # NoHandler /\ method = "GET" /\ path = <<"teapot">>)
              => handler = <<"GET", <<"teapot">>>>

TeapotWithoutAuthentication ==
    /\ path = <<"teapot">>
    /\ ~session.isLoggedIn
    /\ handler = <<"GET", <<"teapot">>>>

\* C6: admin gate.  A request for a non-public path that matches an admin
\* pattern or is in the static admin list is allowed if and only if the
\* session is authenticated and its role is "admin" up to case; otherwise
\* it is forbidden (login view, authentication error), also without a role.
AdminGate ==
    (Answered /\ ~IsPublic(path) /\ (AdminPattern(path) \/ path \in admin_routes)) =>
        IF session.isLoggedIn /\ CaseInsensitiveAdmin(session.level)
        THEN Decision(res) = "ALLOW"
        ELSE res = Render("login", "Authentication error")

CapitalisedAdminAllowed ==
    /\ path = <<"manage-participants", "1", "update">>
    /\ session.isLoggedIn
    /\ session.level = AdminCap
    /\ Decision(res) = "ALLOW"

\* C7: default rule.  For a path that is neither public nor admin-gated the
\* decision depends on authentication alone: allowed if the session is
\* authenticated, whatever its role, else the login view with an empty
\* message.
DefaultRuleOnly ==
    (Answered /\ ~IsPublic(path) /\ ~AdminPattern(path) /\ path \notin admin_routes) =>
        IF session.isLoggedIn
        THEN Decision(res) = "ALLOW"
        ELSE res = Render("login", "")

AuthenticatedWithoutRoleAllowed ==
    /\ path = <<"dashboard">>
    /\ session.isLoggedIn
    /\ session.level = Undefined
    /\ handler = <<"GET", <<"dashboard">>>>

\* the requests that create, update or delete an event occurrence
EventOccurrenceManagement ==
    /\ Len(path) >= 2
    /\ path[1] = "manage-event-occurrences"
    /\ path[Len(path)] \in {"delete", "new", "update"}

\* the handlers that create, update and delete an event occurrence
EventOccurrenceHandlers ==
    { <<"POST", <<"manage-event-occurrences", "new">>>>,
      <<"POST", <<"manage-event-occurrences", ANY, "update">>>>,
      <<"POST", <<"manage-event-occurrences", ANY, "delete">>>> }

\* C8: event-occurrence management is admin-only.  A request under
\* /manage-event-occurrences that ends in /delete, /new or /update, from a
\* session that is not an authenticated admin, is never passed to the
\* handler that creates, updates or deletes an event occurrence.
EventOccurrenceAdminOnly ==
    (EventOccurrenceManagement
        /\ ~(session.isLoggedIn /\ CaseInsensitiveAdmin(session.level)))
    => handler \notin EventOccurrenceHandlers


\* C22: uniform denial.  Every request the middleware does not pass on gets
\* the same response, whatever rule refused it and whatever its path: the
\* login view with the message "Authentication error".
UniformDenial ==
    (Answered /\ res.action # "next")
        => res = Render("login", "Authentication error")


(***************************************************************************)
(* Deleting event templates, event occurrences and users.  The foreign     *)
(* keys of the schema are all ON DELETE CASCADE: event_occurrences to      *)
(* event_templates, registration to users and to event_occurrences,        *)
(* surveys to registration, donations and user_milestones to users.        *)
(***************************************************************************)
\* event_occurrences.event_template_id ... onDelete('CASCADE')
CascadeOccurrences(temps, occs) ==
    [e \in {x \in DOMAIN occs :
               HasId(temps, "event_template_id", occs[x].event_template_id)}
       |-> occs[e]]

\* registration.user_id and registration.event_occurrence_id ...
\* onDelete('CASCADE')
CascadeRegistration(us, occs, regs) ==
    SelectSeq(regs, LAMBDA r : /\ HasId(us, "user_id", r.user_id)
                               /\ r.event_occurrence_id \in DOMAIN occs)

\* surveys.registration_id ... onDelete('CASCADE')
CascadeSurveys(regs, svs) ==
    SelectSeq(svs, LAMBDA v : HasId(regs, "registration_id", v.registration_id))

\* donations.user_id, user_milestones.user_id ... onDelete('CASCADE')
CascadeUserRows(us, rows) ==
    SelectSeq(rows, LAMBDA d : HasId(us, "user_id", d.user_id))

\* a delete statement in a store whose foreign keys do nothing on delete
DeleteNoCascade(temps, us, occs) ==
    /\ event_templates' = temps
    /\ users' = us
    /\ event_occurrences' = occs
    /\ UNCHANGED <<registration, surveys, donations, user_milestones>>

\* a delete statement that left the tables temps, us and occs: the store
\* removes the rows that referenced the deleted ones
DeleteCascade(temps, us, occs) ==
    LET occs2 == CascadeOccurrences(temps, occs)
        regs2 == CascadeRegistration(us, occs2, registration)
    IN  /\ event_templates' = temps
        /\ users' = us
        /\ event_occurrences' = occs2
        /\ registration' = regs2
        /\ surveys' = CascadeSurveys(regs2, surveys)
        /\ donations' = CascadeUserRows(us, donations)
        /\ user_milestones' = CascadeUserRows(us, user_milestones)

DeleteTemplatePath(t) == <<"manage-events", IdSegment(t), "delete">>
DeleteOccurrencePath(e) == <<"manage-event-occurrences", IdSegment(e), "delete">>
DeleteUserPath(u) == <<"manage-participants", IdSegment(u), "delete">>

\* the answer of a delete request
Redirected(to) == [name |-> "redirect", to |-> to]

\* POST /manage-events/:template_id/delete
DeleteTemplate(s, t) ==
    /\ Authenticate(DeleteTemplatePath(t), s).action = "next"
    /\ IF ~HasId(event_templates, "event_template_id", t)
       THEN /\ rendered' = Redirected("/manage-events?error=Event does not exist")
            /\ UNCHANGED <<event_templates, users, event_occurrences,
                           registration, surveys, donations, user_milestones>>
       ELSE /\ rendered' = Redirected("/manage-events")
            /\ DeleteCascade(
                  SelectSeq(event_templates,
                            LAMBDA r : r.event_template_id # t),
                  users, event_occurrences)
    /\ UNCHANGED <<now, milestones, reqs>>
    /\ UNCHANGED accVars

\* POST /manage-event-occurrences/:event_occurrence_id/delete
DeleteOccurrence(s, e) ==
    /\ Authenticate(DeleteOccurrencePath(e), s).action = "next"
    /\ rendered' = Redirected("/manage-event-occurrences")
    /\ DeleteCascade(event_templates, users,
                     [x \in DOMAIN event_occurrences \ {e} |->
                         event_occurrences[x]])
    /\ UNCHANGED <<now, milestones, reqs>>
    /\ UNCHANGED accVars

\* POST /manage-participants/:user_id/delete
DeleteUser(s, u) ==
    /\ Authenticate(DeleteUserPath(u), s).action = "next"
    /\ IF ~HasId(users, "user_id", u)
       THEN /\ rendered' =
                  Redirected("/manage-participants?error=User does not exist")
            /\ UNCHANGED <<event_templates, users, event_occurrences,
                           registration, surveys, donations, user_milestones>>
       ELSE /\ rendered' = Redirected("/manage-participants")
            /\ DeleteCascade(event_templates,
                             SelectSeq(users, LAMBDA r : r.user_id # u),
                             event_occurrences)
    /\ UNCHANGED <<now, milestones, reqs>>
    /\ UNCHANGED accVars

\* a delete request the middleware does not pass on
DeleteDenied(s, p) ==
    /\ Authenticate(p, s).action # "next"
    /\ rendered' = DeniedView(Authenticate(p, s))
    /\ UNCHANGED <<now, event_occurrences, registration, surveys, users,
                   donations, event_templates, milestones, user_milestones,
                   reqs>>
    /\ UNCHANGED accVars

DeleteTemplateIds == {1, 2}
DeleteOccIds == {1, 2, 3}
DeleteUserIds == 1..(NumUsers + 1)

\* two templates; occurrence 1 is of template 1, occurrences 2 and 3 of
\* either; every user is registered for occurrences 1 and 2, user 1 for
\* occurrence 3 as well; a survey for some of the registrations; every user
\* has donated and reached milestone 1
DeleteInit ==
    /\ method = "GET"
    /\ path = <<"">>
    /\ session = Unauthenticated
    /\ res = NoResponse
    /\ handler = NoHandler
    /\ now = 0
    /\ reqs = [p \in Procs |-> Idle]
    /\ rendered = NoView
    /\ users = [i \in 1..NumUsers |-> UserRow(i, TextA)]
    /\ event_templates =
          [i \in 1..2 |-> [event_template_id |-> i, event_name |-> TextA.first]]
    /\ milestones = <<[milestone_id |-> 1, milestone_title |-> TextA.last]>>
    /\ user_milestones = [i \in 1..NumUsers |-> [milestone_id |-> 1, user_id |-> i]]
    /\ donations =
          [i \in 1..NumUsers |-> [donation_id |-> i, user_id |-> i,
                                  donation_amount |-> 100, donation_date |-> 0]]
    /\ \E t2 \in DeleteTemplateIds, t3 \in DeleteTemplateIds :
          event_occurrences =
             [e \in DeleteOccIds |->
                [event_template_id |-> CASE e = 1 -> 1 [] e = 2 -> t2 [] OTHER -> t3,
                 event_capacity |-> NULL,
                 event_date_time_start |-> 1,
                 event_registration_deadline |-> NULL]]
    /\ registration =
          Numbered(
             [i \in 1..(2 * NumUsers) |->
                 [user_id |-> ((i - 1) % NumUsers) + 1,
                  event_occurrence_id |-> ((i - 1) \div NumUsers) + 1,
                  registration_status |-> NullStatus]]
             \o <<[user_id |-> 1, event_occurrence_id |-> 3,
                   registration_status |-> "Cancelled"]>>,
             "registration_id")
    /\ \E ids \in SUBSET {1, 2 * NumUsers, 2 * NumUsers + 1} :
          surveys =
             Numbered(
                [i \in 1..Cardinality(ids) |->
                    [registration_id |->
                        CHOOSE r \in ids :
                           Cardinality({x \in ids : x < r}) = i - 1]],
                "survey_id")

DeleteSessions ==
    { Unauthenticated, LoggedIn(1, adminLower), LoggedIn(2, participantLevel) }

DeleteNext ==
    \/ \E s \in DeleteSessions, t \in DeleteTemplateIds \cup {3} :
          DeleteTemplate(s, t)
    \/ \E s \in DeleteSessions, e \in DeleteOccIds \cup {4} :
          DeleteOccurrence(s, e)
    \/ \E s \in DeleteSessions, u \in DeleteUserIds : DeleteUser(s, u)
    \/ \E s \in DeleteSessions, t \in DeleteTemplateIds :
          DeleteDenied(s, DeleteTemplatePath(t))

DeleteSpec == DeleteInit /\ [][DeleteNext]_vars

\* the occurrences of a template, the registrations of a set of occurrences
\* and the surveys of a set of registrations
OccurrencesOfTemplate(t) ==
    {e \in DOMAIN event_occurrences : event_occurrences[e].event_template_id = t}
RegistrationsOfOccurrences(es) ==
    {registration[i].registration_id :
        i \in {j \in 1..Len(registration) :
                  registration[j].event_occurrence_id \in es}}
SurveysOfRegistrations(rs) ==
    {surveys[i].survey_id :
        i \in {j \in 1..Len(surveys) : surveys[j].registration_id \in rs}}
TableIds(table, key) == {table[i][key] : i \in 1..Len(table)}

\* a step that removes template t removes its occurrences, their
\* registrations and the surveys of those registrations
TemplateDeleteCascades(t) ==
    (/\ HasId(event_templates, "event_template_id", t)
     /\ ~HasId(event_templates', "event_template_id", t))
        => LET es == OccurrencesOfTemplate(t)
               rs == RegistrationsOfOccurrences(es)
               vs == SurveysOfRegistrations(rs)
           IN  /\ es \cap DOMAIN event_occurrences' = {}
               /\ rs \cap TableIds(registration', "registration_id") = {}
               /\ vs \cap TableIds(surveys', "survey_id") = {}

\* every registration row references an existing occurrence and an existing
\* user, and every survey an existing registration
NoOrphans ==
    /\ \A i \in 1..Len(registration) :
          /\ registration[i].event_occurrence_id \in DOMAIN event_occurrences
          /\ HasId(users, "user_id", registration[i].user_id)
    /\ \A i \in 1..Len(surveys) :
          HasId(registration, "registration_id", surveys[i].registration_id)

\* C21: deleting an event template removes every occurrence of the
\* template and every registration and survey of those occurrences, and
\* after any sequence of template, occurrence and user deletions every
\* registration row references an existing occurrence and an existing user.
CascadeDelete ==
    /\ [][\A t \in DeleteTemplateIds : TemplateDeleteCascades(t)]_vars
    /\ []NoOrphans

\* template 1, which had an occurrence with registrations and a survey, is
\* deleted; template 2 and both users remain, with registrations left
TemplateOneDeleted ==
    /\ ~HasId(event_templates, "event_template_id", 1)
    /\ HasId(event_templates, "event_template_id", 2)
    /\ Len(users) = NumUsers
    /\ 1 \notin DOMAIN event_occurrences
    /\ Len(registration) > 0
    /\ Len(registration) < 2 * NumUsers + 1

\* C23: a register request from a session with no authenticated user is
\* answered with the redirect to the login page that carries the return
\* target, and inserts no registration row.
UnauthenticatedRegisterRedirected ==
    /\ \A p \in Procs :
          (/\ reqs[p].route = "register"
           /\ reqs[p].pc = "done"
           /\ ~reqs[p].session.isLoggedIn)
              => reqs[p].result = "RedirectToLogin"
    /\ \A p \in Procs :
          (reqs[p].route = "register" /\ ~reqs[p].session.isLoggedIn)
              => reqs[p].pc \in {"idle", "done"}

(***************************************************************************)
(* The store failing a query: the promise is rejected and the single       *)
(* .catch of the handler answers; the statement that failed wrote nothing.  *)
(***************************************************************************)
QueryPcs == {"load", "dup", "count", "insert", "cancel_load", "cancel_update"}

Rejected(p) ==
    /\ reqs[p].pc \in QueryPcs
    /\ reqs' = [reqs EXCEPT ![p] = Done(reqs[p], "Error")]
    /\ UNCHANGED <<now, event_occurrences, registration, surveys>>
    /\ UNCHANGED <<accVars, adminVars>>

FaultNext ==
    \/ NextSeq
    \/ \E p \in Procs : Rejected(p)

FaultSpec == GateInit /\ [][FaultNext]_vars

\* the outcomes of a register request that reached the handler's checks
RegisterOutcomes ==
    {"NotFound", "AlreadyStarted", "DeadlinePassed", "AlreadyRegistered",
     "CapacityReached", "Ok"}

\* request p answers in this step
Answers(p) == reqs[p].pc # "done" /\ reqs'[p].pc = "done"

\* the first of the five preconditions that fails for the register request
\* p answered in this step, read before the step: the time is the one the
\* request read, the tables are those of the store
FirstFailing(p) ==
    LET e == reqs'[p].event_occurrence_id
        u == reqs'[p].session.user_id
        t == IF reqs[p].pc = "load" THEN now ELSE reqs[p].currentDate
        o == event_occurrences[e]
    IN  IF e \notin DOMAIN event_occurrences THEN "NotFound"
        ELSE IF o.event_date_time_start <= t THEN "AlreadyStarted"
        ELSE IF /\ o.event_registration_deadline # NULL
                /\ o.event_registration_deadline < t THEN "DeadlinePassed"
        ELSE IF ExistingRegistration(u, e) THEN "AlreadyRegistered"
        ELSE IF /\ o.event_capacity # NULL
                /\ RegistrationCount(e) >= o.event_capacity
             THEN "CapacityReached"
        ELSE "Ok"

\* the reported reason is the first failing precondition, and Ok is
\* reported only when none fails
RegisterPrecedence ==
    \A p \in Procs :
       (/\ Answers(p)
        /\ reqs'[p].route = "register"
        /\ reqs'[p].result \in RegisterOutcomes)
          => reqs'[p].result = FirstFailing(p)

\* a step of a register request leaves the table as it is, except the step
\* that answers Ok, which appends one row with status unset
RegisterAtomic ==
    \A p \in Procs :
       (reqs'[p] # reqs[p] /\ reqs'[p].route = "register")
          => IF reqs'[p].pc = "done" /\ reqs'[p].result = "Ok"
             THEN /\ Len(registration') = Len(registration) + 1
                  /\ SubSeq(registration', 1, Len(registration)) = registration
                  /\ LET row == registration'[Len(registration')]
                     IN  /\ row.user_id = reqs'[p].session.user_id
                         /\ row.event_occurrence_id = reqs'[p].event_occurrence_id
                         /\ row.registration_status = NullStatus
             ELSE registration' = registration

\* C24: the register checks run in the order NotFound, AlreadyStarted,
\* DeadlinePassed, AlreadyRegistered, CapacityReached and the reason
\* reported is the first that fails; every failing outcome, a store fault
\* at any step included, leaves table registration unchanged; a row is
\* inserted only when all five checks pass, and then exactly one row with
\* status unset.
RegisterPrecedenceAndAtomicity ==
    [][RegisterPrecedence /\ RegisterAtomic]_vars

\* C25: for an occurrence whose capacity is null a register request never
\* ends CapacityReached, whatever the number of rows of the occurrence;
\* CapacityReached is answered only for an occurrence with a capacity set.
UnlimitedCapacity ==
    \A p \in Procs :
       (/\ reqs[p].route = "register"
        /\ reqs[p].pc = "done"
        /\ reqs[p].result = "CapacityReached")
          => /\ reqs[p].event_occurrence_id \in DOMAIN event_occurrences
             /\ event_occurrences[reqs[p].event_occurrence_id].event_capacity
                   # NULL

\* a register for an occurrence of null capacity that already had a row
\* went through the capacity check and inserted another
RegisteredBeyondAnyCapacity ==
    \E p \in Procs :
       /\ reqs[p].route = "register"
       /\ reqs[p].pc = "done"
       /\ reqs[p].result = "Ok"
       /\ reqs[p].event.event_capacity = NULL
       /\ RegistrationCount(reqs[p].event_occurrence_id) >= 2

\* the rows of an occurrence, whatever their status
RowCount(e) == CountWhere(registration, LAMBDA r : r.event_occurrence_id = e)

HasCancelledRow(e) ==
    HasRow(registration, LAMBDA r : /\ r.event_occurrence_id = e
                                    /\ r.registration_status = "Cancelled")

\* request p is a register by a user without a row for an occurrence of
\* capacity C >= 1 that has C rows or more, one of them cancelled
NewUserAfterCancel(p) ==
    /\ IsRegister(p)
    /\ reqs[p].session.isLoggedIn
    /\ OccOf(p) \in DOMAIN event_occurrences
    /\ event_occurrences[OccOf(p)].event_capacity # NULL
    /\ event_occurrences[OccOf(p)].event_capacity >= 1
    /\ RowCount(OccOf(p)) >= event_occurrences[OccOf(p)].event_capacity
    /\ HasCancelledRow(OccOf(p))
    /\ RowsFor(UserOf(p), OccOf(p)) = 0

\* C26: cancelled seats are not freed.  After an occurrence with capacity C
\* has C rows, cancelling any of them does not allow a further register by
\* a new user: that register still fails with CapacityReached.
CancelledSeatStillCapacityReached ==
    \A p \in Procs :
        (NewUserAfterCancel(p) /\ reqs[p].pc = "done")
            => reqs[p].result = "CapacityReached"

\* C26, amended: after an occurrence with capacity C >= 1 has C rows,
\* cancelling any of them does not allow a further register by a new user:
\* the request never reaches the insert, and it ends with CapacityReached
\* unless the start or the deadline check, which run first, refuses it
\* (AlreadyStarted, DeadlinePassed).
CancelledSeatsNotFreed ==
    \A p \in Procs :
        NewUserAfterCancel(p) =>
            /\ reqs[p].pc # "insert"
            /\ reqs[p].pc = "done" =>
                 /\ reqs[p].result \in
                       {"AlreadyStarted", "DeadlinePassed", "CapacityReached"}
                 /\ reqs[p].result = "AlreadyStarted"
                       => reqs[p].event.event_date_time_start < reqs[p].currentDate
                 /\ reqs[p].result = "DeadlinePassed"
                       => /\ reqs[p].event.event_registration_deadline # NULL
                          /\ reqs[p].event.event_registration_deadline
                                < reqs[p].currentDate

\* a new user's register for a full occurrence one of whose rows is
\* cancelled was refused with CapacityReached
NewUserRefusedAfterCancel ==
    \E p \in Procs :
        /\ NewUserAfterCancel(p)
        /\ reqs[p].pc = "done"
        /\ reqs[p].result = "CapacityReached"
        /\ NonCancelledCount(OccOf(p)) < event_occurrences[OccOf(p)].event_capacity

\* C28: cancel is limited to the owner.  A step of a cancel request changes
\* a registration row only if the row's user_id is the user id of the
\* requesting session, or the session is an admin's.
CancelByOwnerOnly ==
    [][\A p \in Procs :
          (reqs[p].route = "cancel" /\ reqs'[p] # reqs[p])
             => \A i \in 1..Len(registration) :
                   (i > Len(registration') \/ registration'[i] # registration[i])
                      => \/ registration[i].user_id = reqs[p].session.user_id
                         \/ IsAdmin(reqs[p].session)]_vars

(***************************************************************************)
(* POST /registration/:user_id/register/:event_occurrence_id               *)
(***************************************************************************)
LegacyRegisterPath(u, e) ==
    <<"registration", IdSegment(u), "register", IdSegment(e)>>

\* req.body of the request: registration_status, event_registration_deadline
\* (a time, or Missing) and event_capacity (a string)
LegacyBody(status, deadline, capacity) == <<status, deadline, capacity>>
LegacyBodies ==
    { LegacyBody(NullStatus, Missing, << >>),
      LegacyBody(NullStatus, 0, <<"1">>),
      LegacyBody("Cancelled", MaxTime, <<"2">>) }

\* new Date(value): Invalid Date, which compares false with every date,
\* when the value is missing
NewDate(v) == IF v = Missing THEN NaN ELSE v

\* a < b of two JavaScript numbers or dates
LessThan(a, b) == a # NaN /\ b # NaN /\ a < b

\* the request arrives: the middleware, then the deadline test on the
\* deadline of the body
StartLegacyRegister(p, s, u, e, b) ==
    /\ reqs[p].pc = "idle"
    /\ Len(registration) < MaxRows
    /\ LET r == [Idle EXCEPT !.route = "legacy_register", !.session = s,
                             !.user_id = u, !.event_occurrence_id = e,
                             !.body = b, !.currentDate = now]
           answer == Authenticate(LegacyRegisterPath(u, e), s)
           eventRegistrationDeadline == NewDate(b[2])
       IN  reqs' = [reqs EXCEPT ![p] =
                IF answer.action # "next" THEN Done(r, Decision(answer))
                ELSE IF LessThan(eventRegistrationDeadline, now)
                THEN Done(r, "DeadlinePassed")
                ELSE [r EXCEPT !.pc = "legacy_count"]]
    /\ UNCHANGED <<now, event_occurrences, registration, surveys>>
    /\ UNCHANGED <<accVars, adminVars>>

\* the count of the occurrence's rows against the capacity of the body
LegacyCount(p) ==
    /\ reqs[p].pc = "legacy_count"
    /\ LET eventCapacity == parseInt(reqs[p].body[3])
           currentCapacity == RegistrationCount(reqs[p].event_occurrence_id)
       IN  reqs' = [reqs EXCEPT ![p] =
                IF eventCapacity # NaN /\ currentCapacity >= eventCapacity
                THEN Done(reqs[p], "CapacityReached")
                ELSE [reqs[p] EXCEPT !.pc = "legacy_insert"]]
    /\ UNCHANGED <<now, event_occurrences, registration, surveys>>
    /\ UNCHANGED <<accVars, adminVars>>

\* "Register the user": the row carries the user id of the path and the
\* status of the body; the foreign keys reject a user or an occurrence that
\* does not exist
LegacyInsert(p) ==
    /\ reqs[p].pc = "legacy_insert"
    /\ IF \/ ~HasId(users, "user_id", reqs[p].user_id)
          \/ reqs[p].event_occurrence_id \notin DOMAIN event_occurrences
       THEN /\ reqs' = [reqs EXCEPT ![p] = Done(reqs[p], "Error")]
            /\ UNCHANGED registration
       ELSE /\ registration' = Append(registration,
                  [registration_id |-> Len(registration) + 1,
                   user_id |-> reqs[p].user_id,
                   event_occurrence_id |-> reqs[p].event_occurrence_id,
                   registration_status |-> reqs[p].body[1]])
            /\ reqs' = [reqs EXCEPT ![p] = Done(reqs[p], "Ok")]
    /\ UNCHANGED <<now, event_occurrences, surveys>>
    /\ UNCHANGED <<accVars, adminVars>>

\* the user ids a path can name: the users and an id no user has
ReqUserIds == Users \cup {NumUsers + 1}

LegacyNext ==
    \/ NextSeq
    \/ \E p \in Procs, s \in EngineSessions, u \in ReqUserIds, e \in ReqOccIds,
          b \in LegacyBodies :
          AllIdle /\ StartLegacyRegister(p, s, u, e, b)
    \/ \E p \in Procs : LegacyCount(p) \/ LegacyInsert(p)

LegacySpec == DbInit /\ [][LegacyNext]_vars

\* the step is one of request p and appends a registration row
Inserts(p) ==
    /\ reqs'[p] # reqs[p]
    /\ Len(registration') = Len(registration) + 1

\* C27: registrations are made only for oneself.  Every registration row
\* inserted by a registration endpoint has the user id of the session that
\* sent the request, and the deadline and the capacity (1 or more; capacity
\* 0 is the subject of C11) that were applied are those stored for the
\* occurrence.
RegistersOnlyOneself ==
    [][\A p \in Procs :
          Inserts(p) =>
             LET row == registration'[Len(registration')]
                 o == event_occurrences[row.event_occurrence_id]
             IN  /\ row.user_id = reqs[p].session.user_id
                 /\ ~(/\ o.event_registration_deadline # NULL
                      /\ o.event_registration_deadline < reqs[p].currentDate)
                 /\ ~(/\ o.event_capacity # NULL
                      /\ o.event_capacity >= 1
                      /\ RowCount(row.event_occurrence_id) >= o.event_capacity)]_vars

(***************************************************************************)
(* POST /donate                                                            *)
(***************************************************************************)
\* "Otherwise use 1179 (anonymous donor account)"
anonymousDonor == 1179

\* req.body.donation_amount: absent, "0", two amounts and a text that is
\* not a number
DonationAmounts == { << >>, <<"0">>, <<"5">>, <<"1", "2">>, <<"x">> }

\* !donation_amount || parseFloat(donation_amount) <= 0
InvalidAmount(donation_amount) ==
    \/ donation_amount = << >>
    \/ (parseFloat(donation_amount) # NaN /\ parseFloat(donation_amount) <= 0)

\* the donate requests that may still insert a row
Donating == {p \in Procs : reqs[p].route = "donate" /\ reqs[p].pc # "done"}

\* the request arrives: the middleware, the test of the amount, the user id
StartDonate(p, s, donation_amount) ==
    /\ reqs[p].pc = "idle"
    /\ Len(donations) + Cardinality(Donating) < MaxRows
    /\ LET user_id == IF s.isLoggedIn THEN s.user_id ELSE anonymousDonor
           r == [Idle EXCEPT !.route = "donate", !.session = s,
                             !.user_id = user_id, !.body = <<donation_amount>>]
           answer == Authenticate(<<"donate">>, s)
       IN  reqs' = [reqs EXCEPT ![p] =
                IF answer.action # "next" THEN Done(r, Decision(answer))
                ELSE IF InvalidAmount(donation_amount)
                THEN Done(r, "Please enter a valid donation amount")
                ELSE [r EXCEPT !.pc = "donate_max"]]
    /\ UNCHANGED <<now, event_occurrences, registration, surveys>>
    /\ UNCHANGED <<accVars, adminVars>>

\* knex('donations').max('donation_id as maxId'), null for an empty table
maxId ==
    IF donations = << >> THEN NULL
    ELSE CHOOSE m \in {donations[i].donation_id : i \in 1..Len(donations)} :
            \A i \in 1..Len(donations) : donations[i].donation_id <= m

\* "Get the next available donation_id (max + 1)"
DonateMax(p) ==
    /\ reqs[p].pc = "donate_max"
    /\ reqs' = [reqs EXCEPT ![p].pc = "donate_insert",
                            ![p].nextId = (IF maxId = NULL THEN 0 ELSE maxId) + 1]
    /\ UNCHANGED <<now, event_occurrences, registration, surveys>>
    /\ UNCHANGED <<accVars, adminVars>>

\* "Create the donation record": the primary key rejects an id that is
\* taken, the foreign key a user that does not exist; .catch renders the
\* error
DonateInsert(p) ==
    /\ reqs[p].pc = "donate_insert"
    /\ IF \/ HasId(donations, "donation_id", reqs[p].nextId)
          \/ ~HasId(users, "user_id", reqs[p].user_id)
       THEN /\ reqs' = [reqs EXCEPT ![p] =
                  Done(reqs[p], "Error processing donation. Please try again.")]
            /\ UNCHANGED donations
       ELSE /\ donations' = Append(donations,
                  [donation_id |-> reqs[p].nextId,
                   user_id |-> reqs[p].user_id,
                   donation_amount |-> parseFloat(reqs[p].body[1]),
                   donation_date |-> now])
            /\ reqs' = [reqs EXCEPT ![p] = Done(reqs[p], "Ok")]
    /\ UNCHANGED <<now, event_occurrences, registration, surveys>>
    /\ UNCHANGED <<accVars, users, event_templates, milestones,
                   user_milestones, rendered>>

\* the users, the anonymous donor account among them, and no donation
DonateInit ==
    /\ method = "GET"
    /\ path = <<"">>
    /\ session = Unauthenticated
    /\ res = NoResponse
    /\ handler = NoHandler
    /\ now = 0
    /\ event_occurrences =
         [e \in OccIds |-> [event_capacity |-> NULL,
                            event_date_time_start |-> 1,
                            event_registration_deadline |-> NULL]]
    /\ registration = << >>
    /\ surveys = << >>
    /\ users = [i \in 1..NumUsers |-> UserRow(i, TextA)]
                  \o <<UserRow(anonymousDonor, TextB)>>
    /\ donations = << >>
    /\ event_templates = << >>
    /\ milestones = << >>
    /\ user_milestones = << >>
    /\ rendered = NoView
    /\ reqs = [p \in Procs |-> Idle]

DonateNext ==
    \/ \E p \in Procs, s \in EngineSessions, a \in DonationAmounts :
          StartDonate(p, s, a)
    \/ \E p \in Procs : DonateMax(p) \/ DonateInsert(p) \/ Finish(p)

DonateSpec == DonateInit /\ [][DonateNext]_vars

\* C29: donation recording under concurrency.  Whatever the interleaving of
\* donate requests, every request with an amount above 0 ends with its
\* donation recorded under a donation_id of its own; a request with a
\* missing or non-positive amount inserts nothing; a request without a
\* session is attributed to the anonymous user id.
DonationsRecorded ==
    /\ \A p \in Procs :
          (reqs[p].route = "donate" /\ reqs[p].pc = "done") =>
             IF parseFloat(reqs[p].body[1]) # NaN /\ parseFloat(reqs[p].body[1]) > 0
             THEN /\ reqs[p].result = "Ok"
                  /\ HasRow(donations,
                        LAMBDA d : /\ d.donation_id = reqs[p].nextId
                                   /\ d.user_id = reqs[p].user_id
                                   /\ d.donation_amount = parseFloat(reqs[p].body[1]))
                  /\ ~reqs[p].session.isLoggedIn => reqs[p].user_id = anonymousDonor
             ELSE (reqs[p].body[1] = << >> \/ parseFloat(reqs[p].body[1]) = 0)
                     => reqs[p].result = "Please enter a valid donation amount"
    /\ \A i, j \in 1..Len(donations) :
          donations[i].donation_id = donations[j].donation_id => i = j
    /\ \A i \in 1..Len(donations) :
          donations[i].donation_amount = NaN \/ donations[i].donation_amount > 0

(***************************************************************************)
(* Accounts: POST /register, /login, /logout, /account-info and the admin  *)
(* forms POST /manage-participants/new and /:user_id/update, as one        *)
(* browser sends them; variable session is the session of that browser.    *)
(***************************************************************************)
\* a row of table users with the columns the account handlers read and write
AccountRow(i, text, role, email, password) ==
    [user_id |-> i, user_first_name |-> text.first,
     user_last_name |-> text.last, user_role |-> role,
     user_email |-> email, user_password |-> password]

\* the e-mail addresses and passwords the browser sends; the password of
\* the admin's account is not among them
Emails == {"a@x", "b@x", "c@x"}
Passwords == {"user", "default"}

HasEmail(email) == \E i \in 1..Len(users) : users[i].user_email = email
RowWithEmail(email) ==
    users[CHOOSE i \in 1..Len(users) : users[i].user_email = email]

\* the handler a request reaches: the middleware, then the router
Reaches(m, p, s, pattern) ==
    /\ Authenticate(p, s).action = "next"
    /\ Route(m, p) = <<m, pattern>>

\* a view with a message
MessageView(name, error_message) ==
    [name |-> name, error_message |-> error_message]

\* POST /login
Login(email, password) ==
    /\ Reaches("POST", <<"login">>, session, <<"login">>)
    /\ IF ~HasEmail(email) \/ RowWithEmail(email).user_password # password
       THEN /\ rendered' = MessageView("login", "Incorrect email or password")
            /\ UNCHANGED session
       ELSE /\ session' = LoggedIn(RowWithEmail(email).user_id,
                                   RowWithEmail(email).user_role)
            /\ rendered' = Redirected("/dashboard")
    /\ UNCHANGED <<method, path, res, handler>>
    /\ UNCHANGED <<now, event_occurrences, registration, surveys, users,
                   donations, event_templates, milestones, user_milestones,
                   reqs>>

\* POST /logout
Logout ==
    /\ Reaches("POST", <<"logout">>, session, <<"logout">>)
    /\ session' = Unauthenticated
    /\ rendered' = Redirected("/login")
    /\ UNCHANGED <<method, path, res, handler>>
    /\ UNCHANGED <<now, event_occurrences, registration, surveys, users,
                   donations, event_templates, milestones, user_milestones,
                   reqs>>

\* POST /register: "New users are always participants"
RegisterAccount(text, email, password) ==
    /\ Reaches("POST", <<"register">>, session, <<"register">>)
    /\ Len(users) <= NumUsers
    /\ IF HasEmail(email)
       THEN /\ rendered' = MessageView("register",
                              "An account with this email already exists")
            /\ UNCHANGED <<users, session>>
       ELSE LET level == participantLevel
                user_id == Len(users) + 1
            IN  /\ users' = Append(users,
                      AccountRow(user_id, text, level, email, password))
                /\ session' = LoggedIn(user_id, level)
                /\ rendered' = Redirected("/dashboard")
    /\ UNCHANGED <<method, path, res, handler>>
    /\ UNCHANGED <<now, event_occurrences, registration, surveys,
                   donations, event_templates, milestones, user_milestones,
                   reqs>>

\* POST /account-info, without a change of password: the row of
\* req.session.user_id gets the names and the e-mail of the body; the
\* unique constraint rejects an e-mail another row has
AccountInfo(text, email) ==
    /\ Reaches("POST", <<"account-info">>, session, <<"account-info">>)
    /\ IF \E i \in 1..Len(users) : /\ users[i].user_email = email
                                  /\ users[i].user_id # session.user_id
       THEN /\ rendered' = MessageView("account-info",
                              "Error updating account information")
            /\ UNCHANGED users
       ELSE /\ users' =
                  [i \in 1..Len(users) |->
                      IF users[i].user_id = session.user_id
                      THEN [users[i] EXCEPT !.user_first_name = text.first,
                                            !.user_last_name = text.last,
                                            !.user_email = email]
                      ELSE users[i]]
            /\ rendered' = MessageView("account-info", "")
    /\ UNCHANGED accVars
    /\ UNCHANGED <<now, event_occurrences, registration, surveys,
                   donations, event_templates, milestones, user_milestones,
                   reqs>>

\* the paths a request for the admin forms can have: as the forms send
\* them, and with a trailing slash
NewParticipantPaths ==
    { <<"manage-participants", "new">>, <<"manage-participants", "new", "">> }
UpdateParticipantPaths(u) ==
    { <<"manage-participants", IdSegment(u), "update">>,
      <<"manage-participants", IdSegment(u), "update", "">> }

\* POST /manage-participants/new: the row gets the role of the body (the
\* default of the column, 'participant', when the body has none) and the
\* password 'default'
ManageParticipantsNew(p, text, email, role) ==
    /\ Reaches("POST", p, session, <<"manage-participants", "new">>)
    /\ Len(users) <= NumUsers
    /\ IF HasEmail(email)
       THEN /\ rendered' = MessageView("add-participant",
                   "An error occurred while creating the participant.")
            /\ UNCHANGED users
       ELSE /\ users' = Append(users,
                  AccountRow(Len(users) + 1, text,
                             IF role = Undefined THEN participantLevel ELSE role,
                             email, "default"))
            /\ rendered' = Redirected("/manage-participants")
    /\ UNCHANGED accVars
    /\ UNCHANGED <<now, event_occurrences, registration, surveys,
                   donations, event_templates, milestones, user_milestones,
                   reqs>>

\* POST /manage-participants/:user_id/update: the fields the body carries
\* are written, user_role among them
ManageParticipantsUpdate(p, u, text, role) ==
    /\ Reaches("POST", p, session, <<"manage-participants", ANY, "update">>)
    /\ IF ~HasId(users, "user_id", u)
       THEN /\ rendered' =
                  Redirected("/manage-participants?error=User does not exist")
            /\ UNCHANGED users
       ELSE /\ users' =
                  [i \in 1..Len(users) |->
                      IF users[i].user_id = u
                      THEN [users[i] EXCEPT
                               !.user_first_name = text.first,
                               !.user_last_name = text.last,
                               !.user_role = IF role # Undefined THEN role
                                             ELSE users[i].user_role]
                      ELSE users[i]]
            /\ rendered' = Redirected("/manage-participants")
    /\ UNCHANGED accVars
    /\ UNCHANGED <<now, event_occurrences, registration, surveys,
                   donations, event_templates, milestones, user_milestones,
                   reqs>>

\* a request for an admin form that the middleware refuses
AccountDenied(p) ==
    /\ Authenticate(p, session).action # "next"
    /\ rendered' = DeniedView(Authenticate(p, session))
    /\ UNCHANGED accVars
    /\ UNCHANGED <<now, event_occurrences, registration, surveys, users,
                   donations, event_templates, milestones, user_milestones,
                   reqs>>

\* user 1 is an admin, the other users are participants; the browser is
\* not logged in
AccountInit ==
    /\ method = "POST"
    /\ path = <<"">>
    /\ session = Unauthenticated
    /\ res = NoResponse
    /\ handler = NoHandler
    /\ now = 0
    /\ event_occurrences =
         [e \in OccIds |-> [event_capacity |-> NULL,
                            event_date_time_start |-> 1,
                            event_registration_deadline |-> NULL]]
    /\ registration = << >>
    /\ surveys = << >>
    /\ users = <<AccountRow(1, TextA, adminLower, "a@x", "secret")>>
                 \o [i \in 1..(NumUsers - 1) |->
                        AccountRow(i + 1, TextB, participantLevel, "b@x", "user")]
    /\ donations = << >>
    /\ event_templates = << >>
    /\ milestones = << >>
    /\ user_milestones = << >>
    /\ rendered = NoView
    /\ reqs = [p \in Procs |-> Idle]

AccountTexts == {TextA, TextB}
BodyRoles == {Undefined, adminLower, participantLevel}

AccountNext ==
    \/ \E email \in Emails, password \in Passwords : Login(email, password)
    \/ Logout
    \/ \E text \in AccountTexts, email \in Emails, password \in Passwords :
          RegisterAccount(text, email, password)
    \/ \E text \in AccountTexts, email \in Emails : AccountInfo(text, email)
    \/ \E p \in NewParticipantPaths, text \in AccountTexts, email \in Emails,
          role \in BodyRoles : ManageParticipantsNew(p, text, email, role)
    \/ \E u \in ReqUserIds, text \in AccountTexts, role \in BodyRoles :
          \E p \in UpdateParticipantPaths(u) :
             ManageParticipantsUpdate(p, u, text, role)
    \/ \E u \in ReqUserIds :
          \E p \in NewParticipantPaths \cup UpdateParticipantPaths(u)
                     \cup {<<"account-info">>} : AccountDenied(p)

AccountSpec == AccountInit /\ [][AccountNext]_vars

\* C30: no self-service privilege escalation.  A request of a session that
\* is not an admin's changes no user's stored role and creates users with
\* role participant only, and the session becomes an admin's only by
\* logging in as a user whose stored role is admin.
NoSelfServiceEscalation ==
    [][~IsAdmin(session) =>
          /\ Len(users') >= Len(users)
          /\ \A i \in 1..Len(users) : users'[i].user_role = users[i].user_role
          /\ \A i \in (Len(users) + 1)..Len(users') :
                users'[i].user_role = participantLevel
          /\ IsAdmin(session') =>
                \E i \in 1..Len(users) :
                   /\ users[i].user_id = session'.user_id
                   /\ toLowerCase(users[i].user_role) = adminLower]_vars
=============================================================================